---- MODULE Spec2Model ----
(***************************************************************************)
(* Model of the medical chatbot service (chatbotService.js): the catalog   *)
(* loader, the similarity primitives, the pattern scorer, the intent       *)
(* resolver and the response facade; the chat history kept in              *)
(* localStorage; and the chat component (ChatbotComponent.js).             *)
(*                                                                         *)
(* JavaScript values are records [type, num, str, items]; strings are      *)
(* sequences of one-character strings; an intent entry is a record        *)
(* [type, tag, patterns, responses]; a raw catalog is [type, intents].     *)
(* Scores are exact rationals <<numerator, denominator>>.                  *)
(***************************************************************************)
EXTENDS Integers, Sequences, FiniteSets, TLC

VARIABLES
    intents,       \* this.intents: the installed catalog
    hasMetrics,    \* whether options.metrics was supplied
    last,          \* the most recent call: its arguments and how it ended
    events,        \* what that call did, in order: collaborator calls, then return/throw
    loaded,        \* history: the intents array of the latest successful load
    memo,          \* history: an earlier findMatchingIntent observation
    storage,       \* localStorage item 'medical_chatbot_history': absent, or JSON text
    messages,      \* component state: the displayed messages
    inputText,     \* component state: the text field
    isLoading,     \* component state
    errorMessage,  \* component state error: null or the failure text
    openDialog,    \* component state: the confirmation dialog
    snackbar,      \* component state: the notification shown
    pending,       \* the generateResponse requests that have not settled yet
    clock,         \* history: the number of message timestamps issued so far
    clearedUpTo    \* history: the value of clock at the latest successful clear

\* the chat history and the component
chatVars ==
    <<storage, messages, inputText, isLoading, errorMessage, openDialog, snackbar, pending,
      clock, clearedUpTo>>

vars == <<intents, hasMetrics, last, events, loaded, memo, chatVars>>

(***************************************************************************)
(* Bounds                                                                  *)
(***************************************************************************)
\* longest raw catalog drawn as an input of loadIntents / the constructor
MaxIntents == 2

\* longest string given to the edit distance on its own
MaxEditLen == 3

\* most timestamps issued when the chat history is used on its own
MaxSaved == 54

\* the chat component accepts at most this many non-empty submissions
MaxExchanges == 2

(***************************************************************************)
(* JavaScript values                                                       *)
(***************************************************************************)
JsVal(t, n, s, xs) == [type |-> t, num |-> n, str |-> s, items |-> xs]

Undefined == JsVal("undefined", 0, <<>>, <<>>)

Null == JsVal("null", 0, <<>>, <<>>)

Num(n) == JsVal("number", n, <<>>, <<>>)

Bool(b) == JsVal("boolean", IF b THEN 1 ELSE 0, <<>>, <<>>)

Str(s) == JsVal("string", 0, s, <<>>)

Arr(xs) == JsVal("array", 0, <<>>, xs)

Obj == JsVal("object", 0, <<>>, <<>>)

Sym == JsVal("symbol", 0, <<>>, <<>>)

\* ToBoolean: what `!x` negates
Truthy(v) ==
    CASE v.type \in {"undefined", "null"} -> FALSE
      [] v.type = "string" -> Len(v.str) > 0
      [] v.type \in {"number", "boolean"} -> v.num # 0
      [] OTHER -> TRUE

\* Array.isArray
IsArray(v) == v.type = "array"

\* typeof x === 'string'
IsString(v) == v.type = "string"

\* an intent entry of the intents array; a null entry has no properties
Entry(tag, patterns, responses) ==
    [type |-> "object", tag |-> tag, patterns |-> patterns, responses |-> responses]

NullEntry == [type |-> "null", tag |-> Undefined, patterns |-> Undefined, responses |-> Undefined]

\* the argument of loadIntents: a value with an (optional) intents property
Raw(t, n, intentsProp) == [type |-> t, num |-> n, intents |-> intentsProp]

RawTruthy(d) ==
    CASE d.type \in {"undefined", "null"} -> FALSE
      [] d.type = "number" -> d.num # 0
      [] OTHER -> TRUE

(***************************************************************************)
(* Strings                                                                 *)
(***************************************************************************)
\* String.prototype.toLowerCase on the letters the inputs use
LowerChar(c) ==
    CASE c = "A" -> "a"
      [] c = "B" -> "b"
      [] c = "C" -> "c"
      [] c = "U" -> "u"
      [] c = "T" -> "t"
      [] c = "S" -> "s"
      [] c = "D" -> "d"
      [] c = "X" -> "x"
      [] c = "Y" -> "y"
      [] OTHER -> c

\* variant: letter case is kept
toLowerCaseIdentity(s) == s

toLowerCase(s) == [i \in 1..Len(s) |-> LowerChar(s[i])]

\* the characters String.prototype.trim strips
IsWhiteSpace(c) == c \in {" ", "\t"}

RECURSIVE trimStart(_)
trimStart(s) ==
    IF Len(s) > 0 /\ IsWhiteSpace(s[1]) THEN trimStart(Tail(s)) ELSE s

RECURSIVE trimEnd(_)
trimEnd(s) ==
    IF Len(s) > 0 /\ IsWhiteSpace(s[Len(s)])
    THEN trimEnd(SubSeq(s, 1, Len(s) - 1))
    ELSE s

trim(s) == trimEnd(trimStart(s))

\* s.split(' ').filter(word => word.length > 0)
RECURSIVE splitWords(_, _, _)
splitWords(s, cur, acc) ==
    IF Len(s) = 0
    THEN IF Len(cur) > 0 THEN Append(acc, cur) ELSE acc
    ELSE IF s[1] = " "
         THEN splitWords(Tail(s), <<>>, IF Len(cur) > 0 THEN Append(acc, cur) ELSE acc)
         ELSE splitWords(Tail(s), Append(cur, s[1]), acc)

Words(s) == splitWords(s, <<>>, <<>>)

\* String.prototype.includes
includes(s, sub) ==
    \E k \in 0..(Len(s) - Len(sub)) : SubSeq(s, k + 1, k + Len(sub)) = sub

(***************************************************************************)
(* Exact rational arithmetic for the scores                                *)
(***************************************************************************)
Abs(x) == IF x < 0 THEN -x ELSE x

Min2(x, y) == IF x < y THEN x ELSE y

Max2(x, y) == IF x > y THEN x ELSE y

RECURSIVE Gcd(_, _)
Gcd(x, y) == IF y = 0 THEN x ELSE Gcd(y, x % y)

\* the fraction n / d (d > 0) in lowest terms
Rat(n, d) == <<n \div Gcd(Abs(n), d), d \div Gcd(Abs(n), d)>>

RAdd(p, q) == Rat(p[1] * q[2] + q[1] * p[2], p[2] * q[2])

RMul(p, q) == Rat(p[1] * q[1], p[2] * q[2])

RLess(p, q) == p[1] * q[2] < q[1] * p[2]

RLeq(p, q) == p[1] * q[2] <= q[1] * p[2]

RMax(p, q) == IF RLess(p, q) THEN q ELSE p

\* variant: no cap, the second argument is returned as it is
RMinUncapped(p, q) == q

RMin(p, q) == IF RLess(q, p) THEN q ELSE p

Zero == <<0, 1>>

One == <<1, 1>>

(***************************************************************************)
(* Similarity primitives                                                   *)
(***************************************************************************)
\* variant: the substitution candidate is left out of the minimum
Min3NoSubstitution(x, y, z) == IF x <= y THEN x ELSE y

Min3(x, y, z) == IF x <= y /\ x <= z THEN x ELSE IF y <= z THEN y ELSE z

\* row j of the matrix, filled from column 0: row[i + 1] = matrix[j][i], prev is
\* row j - 1 and ch = str2.charAt(j - 1); the next column is i = Len(row)
RECURSIVE LevenshteinRow(_, _, _, _)
LevenshteinRow(prev, str1, ch, row) ==
    IF Len(row) > Len(str1)
    THEN row
    ELSE LevenshteinRow(prev, str1, ch,
             Append(row, Min3(row[Len(row)] + 1,
                              prev[Len(row) + 1] + 1,
                              prev[Len(row)] + (IF str1[Len(row)] = ch THEN 0 ELSE 1))))

\* the matrix, filled row by row: matrix[j + 1] is row j, the next row is j = Len(matrix)
RECURSIVE LevenshteinMatrix(_, _, _)
LevenshteinMatrix(matrix, str1, str2) ==
    IF Len(matrix) > Len(str2)
    THEN matrix
    ELSE LevenshteinMatrix(
             Append(matrix, LevenshteinRow(matrix[Len(matrix)], str1, str2[Len(matrix)],
                                           <<Len(matrix)>>)),
             str1, str2)

\* matrix[str2.length][str1.length]
_calculateLevenshteinDistance(str1, str2) ==
    LevenshteinMatrix(<<[i \in 1..(Len(str1) + 1) |-> i - 1]>>, str1, str2)[Len(str2) + 1][Len(str1) + 1]

\* 1 - (distance / maxLength), after the two guards
SimilarityFor(str1, str2, maxLength) ==
    IF maxLength = 0
    THEN One
    ELSE Rat(maxLength - _calculateLevenshteinDistance(str1, str2), maxLength)

_calculateStringSimilarity(str1, str2) ==
    IF Len(str1) = 0 \/ Len(str2) = 0
    THEN Zero
    ELSE SimilarityFor(str1, str2, Max2(Len(str1), Len(str2)))

(***************************************************************************)
(* Pattern scorer                                                          *)
(***************************************************************************)
medicalKeywords ==
    { <<"c", "u", "t", "s">>, <<"f", "e", "v", "e", "r">>,
      <<"h", "e", "a", "d", "a", "c", "h", "e">>, <<"p", "a", "i", "n">>,
      <<"t", "r", "e", "a", "t", "m", "e", "n", "t">>, <<"c", "u", "r", "e">> }

\* similarity above which a query word counts as matched
WordMatchThreshold == <<6, 10>>

\* bonus per matched pair that involves a medical keyword
KeywordBonus == <<2, 10>>

\* inner loop of _calculateWordOrderSimilarity: best = <<bestMatchScore, bestMatchIndex>>
\* (index 0-based, -1 when no pattern word has positive similarity)
RECURSIVE BestPatternWord(_, _, _, _)
BestPatternWord(queryWord, patternWords, j, best) ==
    IF j > Len(patternWords)
    THEN best
    ELSE IF RLess(best[1], _calculateStringSimilarity(queryWord, patternWords[j]))
         THEN BestPatternWord(queryWord, patternWords, j + 1,
                  <<_calculateStringSimilarity(queryWord, patternWords[j]), j - 1>>)
         ELSE BestPatternWord(queryWord, patternWords, j + 1, best)

\* medicalKeywords.some(keyword => queryWord... || patternWords[bestMatchIndex]...)
IsKeywordMatch(queryWord, patternWord) ==
    \E keyword \in medicalKeywords :
        \/ includes(toLowerCase(queryWord), keyword)
        \/ includes(toLowerCase(patternWord), keyword)

\* the body of the outer loop for query word acc.i (1-based) and its best pattern
\* word; acc holds the loop index with matchCount, orderScore and keywordMatches
WordOrderStep(queryWords, patternWords, acc, best) ==
    IF RLess(WordMatchThreshold, best[1])
    THEN [i |-> acc.i + 1,
          matchCount |-> acc.matchCount + 1,
          orderScore |-> RAdd(acc.orderScore,
                              Rat(Max2(Len(queryWords), Len(patternWords))
                                  - Abs((acc.i - 1) - best[2]),
                                  Max2(Len(queryWords), Len(patternWords)))),
          keywordMatches |-> acc.keywordMatches
                             + (IF IsKeywordMatch(queryWords[acc.i], patternWords[best[2] + 1])
                                THEN 1 ELSE 0)]
    ELSE [i |-> acc.i + 1, matchCount |-> acc.matchCount,
          orderScore |-> acc.orderScore, keywordMatches |-> acc.keywordMatches]

RECURSIVE WordOrderLoop(_, _, _)
WordOrderLoop(queryWords, patternWords, acc) ==
    IF acc.i > Len(queryWords)
    THEN acc
    ELSE WordOrderLoop(queryWords, patternWords,
             WordOrderStep(queryWords, patternWords, acc,
                           BestPatternWord(queryWords[acc.i], patternWords, 1, <<Zero, -1>>)))

\* Math.min(1, baseScore + keywordBonus), baseScore = orderScore / matchCount or 0
WordOrderScore(acc) ==
    IF acc.matchCount > 0
    THEN RMin(One, RAdd(RMul(acc.orderScore, <<1, acc.matchCount>>),
                        RMul(<<acc.keywordMatches, 1>>, KeywordBonus)))
    ELSE RMin(One, RAdd(Zero, RMul(<<acc.keywordMatches, 1>>, KeywordBonus)))

_calculateWordOrderSimilarity(queryWords, patternWords) ==
    IF Len(queryWords) = 0 \/ Len(patternWords) = 0
    THEN Zero
    ELSE WordOrderScore(WordOrderLoop(queryWords, patternWords,
             [i |-> 1, matchCount |-> 0, orderScore |-> Zero, keywordMatches |-> 0]))

\* bestWordScore = Math.max(bestWordScore, similarity) over the pattern words
RECURSIVE BestWordScore(_, _, _, _)
BestWordScore(queryWord, patternWords, j, bestWordScore) ==
    IF j > Len(patternWords)
    THEN bestWordScore
    ELSE IF RLess(bestWordScore, _calculateStringSimilarity(queryWord, patternWords[j]))
         THEN BestWordScore(queryWord, patternWords, j + 1,
                            _calculateStringSimilarity(queryWord, patternWords[j]))
         ELSE BestWordScore(queryWord, patternWords, j + 1, bestWordScore)

\* the body of the word loop of findMatchingIntent; acc holds the loop index i
\* (1-based) with the sum of the bestWordScore values and matchedWords
WordSimilarityStep(acc, bestWordScore) ==
    IF RLess(WordMatchThreshold, bestWordScore)
    THEN [i |-> acc.i + 1, sum |-> RAdd(acc.sum, bestWordScore),
          matchedWords |-> acc.matchedWords + 1]
    ELSE [i |-> acc.i + 1, sum |-> RAdd(acc.sum, bestWordScore),
          matchedWords |-> acc.matchedWords]

RECURSIVE WordSimilarityLoop(_, _, _)
WordSimilarityLoop(queryWords, patternWords, acc) ==
    IF acc.i > Len(queryWords)
    THEN acc
    ELSE WordSimilarityLoop(queryWords, patternWords,
             WordSimilarityStep(acc, BestWordScore(queryWords[acc.i], patternWords, 1, Zero)))

\* proportion matchedWords / Math.max(queryWords.length, patternWords.length)
\* (queryWords is never empty here, so the divisor is positive)
MatchedWordsProportion(matchedWords, queryWords, patternWords) ==
    Rat(matchedWords, Max2(Len(queryWords), Len(patternWords)))

\* the four components of patternScore, from the word loop's result
ScoreComponents(normalizedQuery, queryWords, normalizedPattern, patternWords, loop) ==
    [exactMatchScore |-> IF normalizedQuery = normalizedPattern THEN One ELSE Zero,
     wordSimilarityScore |-> RMul(loop.sum, <<1, Len(queryWords)>>),
     wordOrderScore |-> _calculateWordOrderSimilarity(queryWords, patternWords),
     matchedWordsProportion |->
         MatchedWordsProportion(loop.matchedWords, queryWords, patternWords)]

\* (exact * 1.0 + wordSimilarity * 0.7 + wordOrder * 0.6 + proportion * 0.9) / 3.2,
\* over the common denominator of the four components
WeightedScore(c) ==
    Rat(  10 * c.exactMatchScore[1] * c.wordSimilarityScore[2]
             * c.wordOrderScore[2] * c.matchedWordsProportion[2]
        + 7 * c.wordSimilarityScore[1] * c.exactMatchScore[2]
            * c.wordOrderScore[2] * c.matchedWordsProportion[2]
        + 6 * c.wordOrderScore[1] * c.exactMatchScore[2]
            * c.wordSimilarityScore[2] * c.matchedWordsProportion[2]
        + 9 * c.matchedWordsProportion[1] * c.exactMatchScore[2]
            * c.wordSimilarityScore[2] * c.wordOrderScore[2],
        32 * c.exactMatchScore[2] * c.wordSimilarityScore[2]
           * c.wordOrderScore[2] * c.matchedWordsProportion[2])

ScoreAgainstWords(normalizedQuery, queryWords, normalizedPattern, patternWords) ==
    WeightedScore(ScoreComponents(normalizedQuery, queryWords, normalizedPattern, patternWords,
                      WordSimilarityLoop(queryWords, patternWords,
                                         [i |-> 1, sum |-> Zero, matchedWords |-> 0])))

\* variant: an empty pattern counts as an exact match
PatternScoreEmptyMatches(normalizedQuery, queryWords, pattern) ==
    IF Len(pattern) = 0
    THEN One
    ELSE ScoreAgainstWords(normalizedQuery, queryWords, toLowerCase(pattern),
                           Words(toLowerCase(pattern)))

\* the score of one string pattern against the normalized query
PatternScore(normalizedQuery, queryWords, pattern) ==
    ScoreAgainstWords(normalizedQuery, queryWords, toLowerCase(pattern),
                      Words(toLowerCase(pattern)))

\* intentScore = Math.max(intentScore, patternScore) over the string patterns, from 0
RECURSIVE IntentScore(_, _, _, _, _)
IntentScore(normalizedQuery, queryWords, patterns, k, intentScore) ==
    IF k > Len(patterns)
    THEN intentScore
    ELSE IF ~IsString(patterns[k])
    THEN IntentScore(normalizedQuery, queryWords, patterns, k + 1, intentScore)
    ELSE IF RLess(intentScore, PatternScore(normalizedQuery, queryWords, patterns[k].str))
    THEN IntentScore(normalizedQuery, queryWords, patterns, k + 1,
                     PatternScore(normalizedQuery, queryWords, patterns[k].str))
    ELSE IntentScore(normalizedQuery, queryWords, patterns, k + 1, intentScore)

(***************************************************************************)
(* Errors, events and call records                                         *)
(***************************************************************************)
Error(name, message) == [name |-> name, message |-> message]

NoError == Error("none", "")

\* error instanceof ChatbotError
IsChatbotError(e) ==
    e.name \in {"ChatbotError", "IntentLoadError", "IntentMatchError",
                "ResponseGenerationError", "ChatHistoryError"}

Event(fn, kind, msg, val) == [fn |-> fn, kind |-> kind, msg |-> msg, val |-> val]

ReturnEvent == Event("return", "", "", Undefined)

ThrowEvent(e) == Event("throw", e.name, e.message, Undefined)

\* this.logger(context, error): the injected logger, console.error by default
LoggerEvent(context, e) == Event("logger", context, e.name, Undefined)

RecordErrorEvent(kind, message) == Event("recordError", kind, message, Undefined)

RecordIntentMatchEvent(label) == Event("recordIntentMatch", "", "", label)

RecordResponseTimeEvent == Event("recordResponseTime", "", "", Undefined)

\* this.findMatchingIntent(query) as called by generateResponse
ResolverCallEvent == Event("findMatchingIntent", "", "", Undefined)

(***************************************************************************)
(* Catalog loader and validator                                            *)
(***************************************************************************)
MsgMissing == "Intent data is missing"

MsgNoIntents == "Invalid intent data structure: missing intents property"

MsgNotArray == "Invalid intent data structure: intents must be an array"

MsgEmpty == "Intent data is empty"

MsgMissingProps == "Invalid intent structure: missing required properties"

MsgNotArrays == "Invalid intent structure: patterns and responses must be arrays"

\* reading a property of a null entry: the engine's TypeError
TypeErrorNullEntry == Error("TypeError", "Cannot read properties of null")

\* variant: the array check is made before the presence check
EntryErrorArraysFirst(intent) ==
    IF intent.type = "null"
    THEN TypeErrorNullEntry
    ELSE IF ~IsArray(intent.patterns) \/ ~IsArray(intent.responses)
         THEN Error("IntentLoadError", MsgNotArrays)
         ELSE IF ~Truthy(intent.tag) \/ ~Truthy(intent.patterns) \/ ~Truthy(intent.responses)
              THEN Error("IntentLoadError", MsgMissingProps)
              ELSE NoError

\* variant: the tag is not checked
EntryErrorNoTagCheck(intent) ==
    IF intent.type = "null"
    THEN TypeErrorNullEntry
    ELSE IF ~Truthy(intent.patterns) \/ ~Truthy(intent.responses)
         THEN Error("IntentLoadError", MsgMissingProps)
         ELSE IF ~IsArray(intent.patterns) \/ ~IsArray(intent.responses)
              THEN Error("IntentLoadError", MsgNotArrays)
              ELSE NoError

\* the two checks the loop makes on one entry
EntryError(intent) ==
    IF intent.type = "null"
    THEN TypeErrorNullEntry
    ELSE IF ~Truthy(intent.tag) \/ ~Truthy(intent.patterns) \/ ~Truthy(intent.responses)
         THEN Error("IntentLoadError", MsgMissingProps)
         ELSE IF ~IsArray(intent.patterns) \/ ~IsArray(intent.responses)
              THEN Error("IntentLoadError", MsgNotArrays)
              ELSE NoError

\* for (const intent of intentsData.intents): the first entry that fails
RECURSIVE EntriesError(_, _)
EntriesError(items, k) ==
    IF k > Len(items)
    THEN NoError
    ELSE IF EntryError(items[k]) # NoError
         THEN EntryError(items[k])
         ELSE EntriesError(items, k + 1)

\* what the try block of loadIntents throws, NoError when it completes
ValidationError(intentsData) ==
    IF ~RawTruthy(intentsData)
    THEN Error("IntentLoadError", MsgMissing)
    ELSE IF ~Truthy(intentsData.intents)
         THEN Error("IntentLoadError", MsgNoIntents)
         ELSE IF ~IsArray(intentsData.intents)
              THEN Error("IntentLoadError", MsgNotArray)
              ELSE IF Len(intentsData.intents.items) = 0
                   THEN Error("IntentLoadError", MsgEmpty)
                   ELSE EntriesError(intentsData.intents.items, 1)

\* the catch block's wrappedError
WrapLoadError(e) ==
    IF IsChatbotError(e)
    THEN e
    ELSE Error("IntentLoadError", "Failed to load intent data: " \o e.message)

\* variant: the assignment is made before validation
InstalledBeforeValidation(intentsData, current) ==
    IF RawTruthy(intentsData) THEN intentsData.intents ELSE current

\* this.intents after the call
InstalledAfterLoad(intentsData, current) ==
    IF ValidationError(intentsData) = NoError THEN intentsData.intents ELSE current

\* variant: the error is recorded and rethrown without being logged first
LoadFailureEventsMetricsFirst(e, metrics) ==
    (IF metrics
     THEN <<RecordErrorEvent("INTENT_LOAD_ERROR", WrapLoadError(e).message)>>
     ELSE <<>>)
    \o <<ThrowEvent(WrapLoadError(e)), LoggerEvent("Error loading intents:", e)>>

\* what a failing call does, in order
LoadFailureEvents(e, metrics) ==
    <<LoggerEvent("Error loading intents:", e)>>
    \o (IF metrics
        THEN <<RecordErrorEvent("INTENT_LOAD_ERROR", WrapLoadError(e).message)>>
        ELSE <<>>)
    \o <<ThrowEvent(WrapLoadError(e))>>

loadIntentsEvents(intentsData, metrics) ==
    IF ValidationError(intentsData) = NoError
    THEN <<ReturnEvent>>
    ELSE LoadFailureEvents(ValidationError(intentsData), metrics)

(***************************************************************************)
(* Intent resolver                                                         *)
(***************************************************************************)
\* the acceptance threshold, 0.25
Threshold == <<25, 100>>

\* variant: the threshold is exclusive
MeetsThresholdStrict(score) == RLess(Threshold, score)

\* bestMatch.score >= 0.25
MeetsThreshold(score) == RLeq(Threshold, score)

\* variant: a later intent with an equal score replaces the best one
ReplacesBestOrEqual(intentScore, bestScore) == RLeq(bestScore, intentScore) /\ RLess(Zero, intentScore)

\* intentScore > bestMatch.score
ReplacesBest(intentScore, bestScore) == RLess(bestScore, intentScore)

\* the outcome of a call: a returned intent (NullEntry for null) or a thrown error
Returned(intent) == [kind |-> "return", intent |-> intent, err |-> NoError]

Thrown(e) == [kind |-> "throw", intent |-> NullEntry, err |-> e]

\* for (const intent of this.intents): an intent without a patterns array is
\* skipped; if (intentScore > bestMatch.score) bestMatch = { intent, score }
RECURSIVE BestMatch(_, _, _, _, _)
BestMatch(normalizedQuery, queryWords, items, k, bestMatch) ==
    IF k > Len(items)
    THEN bestMatch
    ELSE IF ~Truthy(items[k].patterns) \/ ~IsArray(items[k].patterns)
    THEN BestMatch(normalizedQuery, queryWords, items, k + 1, bestMatch)
    ELSE IF ReplacesBest(IntentScore(normalizedQuery, queryWords, items[k].patterns.items, 1, Zero),
                         bestMatch.score)
    THEN BestMatch(normalizedQuery, queryWords, items, k + 1,
             [intent |-> items[k],
              score |-> IntentScore(normalizedQuery, queryWords, items[k].patterns.items, 1, Zero)])
    ELSE BestMatch(normalizedQuery, queryWords, items, k + 1, bestMatch)

\* variant: bestMatch is kept from the previous call instead of being reset
StaleBestMatch ==
    IF last.op = "findMatchingIntent" /\ last.kind = "return" /\ last.intent.type # "null"
    THEN [intent |-> last.intent, score |-> One]
    ELSE [intent |-> NullEntry, score |-> Zero]

\* let bestMatch = { intent: null, score: 0 }
NoMatch == [intent |-> NullEntry, score |-> Zero]

\* the catch block: ChatbotErrors pass, anything else is wrapped
WrapMatchError(e) ==
    IF IsChatbotError(e)
    THEN e
    ELSE Error("IntentMatchError", "Failed to match intent: " \o e.message)

\* return bestMatch.score >= 0.25 ? bestMatch.intent : null
Accepted(bestMatch) ==
    IF MeetsThreshold(bestMatch.score) THEN Returned(bestMatch.intent) ELSE Returned(NullEntry)

\* from the normalized query on
MatchNormalized(normalizedQuery, catalog) ==
    IF Len(normalizedQuery) = 0
    THEN Returned(NullEntry)
    ELSE IF \E k \in 1..Len(catalog.items) : catalog.items[k].type = "null"
         THEN Thrown(WrapMatchError(TypeErrorNullEntry))
         ELSE Accepted(BestMatch(normalizedQuery, Words(normalizedQuery),
                                 catalog.items, 1, NoMatch))

findMatchingIntent(query, catalog) ==
    IF ~Truthy(query)
    THEN Returned(NullEntry)
    ELSE IF ~IsString(query)
    THEN Thrown(Error("IntentMatchError", "Query must be a string"))
    ELSE IF ~Truthy(catalog) \/ ~IsArray(catalog) \/ Len(catalog.items) = 0
    THEN Thrown(Error("IntentMatchError", "No intents available for matching"))
    ELSE MatchNormalized(trim(toLowerCase(query.str)), catalog)

(***************************************************************************)
(* Response facade                                                         *)
(***************************************************************************)
EmptyQueryText == "I'm sorry, I don't understand empty queries. Please ask a medical question."

NoMatchText == "I'm sorry, I don't understand that medical query. Could you please rephrase it or ask about a specific medical condition?"

MatchErrorText == "Sorry, there was an error matching your query. Please try rephrasing your question."

InternalErrorText == "Sorry, I encountered an error processing your query. Please try again."

\* the returned object; a fixed answer is its text, a selected answer is the response value
Result(text, response, intent, error) ==
    [answerText |-> text, answer |-> response, intent |-> intent, error |-> error]

\* no object: the call threw
NoResult == Result("", Undefined, Undefined, "")

\* variant: every caught error is reported as an internal error
CatchResultInternalOnly(e) ==
    Result(InternalErrorText, Undefined, Null, "INTERNAL_ERROR")

\* the catch block of generateResponse: the result an error is mapped to
CatchResult(e) ==
    IF e.name = "IntentMatchError"
    THEN Result(MatchErrorText, Undefined, Null, "INTENT_MATCH_ERROR")
    ELSE Result(InternalErrorText, Undefined, Null, "INTERNAL_ERROR")

\* the catch block's metrics call
CatchEvents(e, metrics) ==
    IF metrics
    THEN <<RecordErrorEvent(IF e.name = "IntentMatchError"
                            THEN "INTENT_MATCH_ERROR" ELSE "INTERNAL_ERROR", e.message)>>
    ELSE <<>>

\* variant: a finally block that records nothing
FinallyEventsNone(metrics) == <<>>

\* the finally block
FinallyEvents(metrics) == IF metrics THEN <<RecordResponseTimeEvent>> ELSE <<>>

\* typeof response !== 'string' || response.trim().length === 0
InvalidResponse(response) == ~IsString(response) \/ Len(trim(response.str)) = 0

\* the values Math.floor(Math.random() * n) can take, given the resolver's outcome
IndexesFor(query, m) ==
    IF /\ Truthy(query) /\ IsString(query)
       /\ m.kind = "return" /\ m.intent.type # "null"
       /\ IsArray(m.intent.responses) /\ Len(m.intent.responses.items) > 0
    THEN 0..(Len(m.intent.responses.items) - 1)
    ELSE {0}

RandomIndexes(query, catalog) == IndexesFor(query, findMatchingIntent(query, catalog))

\* what the try block does: it completes with a result or throws an error
Completed(result, evs) == [thrown |-> FALSE, err |-> NoError, events |-> evs, result |-> result]

Failed(e) == [thrown |-> TRUE, err |-> e, events |-> <<>>, result |-> NoResult]

\* variant: a selected response is returned without recording its label
RespondUnrecorded(matchedIntent, response, metrics) ==
    IF InvalidResponse(response)
    THEN Failed(Error("ResponseGenerationError", "Invalid response for intent"))
    ELSE Completed(Result("", response, matchedIntent.tag, "null"),
                   IF metrics THEN <<RecordResponseTimeEvent>> ELSE <<>>)

\* the selected response: checked, recorded and returned
Respond(matchedIntent, response, metrics) ==
    IF InvalidResponse(response)
    THEN Failed(Error("ResponseGenerationError", "Invalid response for intent"))
    ELSE Completed(Result("", response, matchedIntent.tag, "null"),
                   IF metrics
                   THEN <<RecordIntentMatchEvent(matchedIntent.tag), RecordResponseTimeEvent>>
                   ELSE <<>>)

\* variant: a query no intent matches is treated as a failure
AfterMatchNoMatchFails(m, metrics, randomIndex) ==
    IF m.kind = "throw"
    THEN Failed(m.err)
    ELSE IF m.intent.type = "null"
    THEN Failed(Error("ResponseGenerationError", "No matching intent"))
    ELSE IF \/ ~Truthy(m.intent.responses)
            \/ ~IsArray(m.intent.responses)
            \/ Len(m.intent.responses.items) = 0
    THEN Failed(Error("ResponseGenerationError", "No responses available for intent"))
    ELSE Respond(m.intent, m.intent.responses.items[randomIndex + 1], metrics)

\* the try block after the resolver call, m its outcome
AfterMatch(m, metrics, randomIndex) ==
    IF m.kind = "throw"
    THEN Failed(m.err)
    ELSE IF m.intent.type = "null"
    THEN Completed(Result(NoMatchText, Undefined, Null, "NO_MATCH"),
                   IF metrics THEN <<RecordIntentMatchEvent(Null)>> ELSE <<>>)
    ELSE IF \/ ~Truthy(m.intent.responses)
            \/ ~IsArray(m.intent.responses)
            \/ Len(m.intent.responses.items) = 0
    THEN Failed(Error("ResponseGenerationError", "No responses available for intent"))
    ELSE Respond(m.intent, m.intent.responses.items[randomIndex + 1], metrics)

\* the resolver was called before t, the rest of the try block
Invoked(t) == [t EXCEPT !.events = <<ResolverCallEvent>> \o @]

\* variant: the resolver is consulted before the query is looked at
TryGenerateResolveFirst(query, catalog, metrics, randomIndex) ==
    IF ~Truthy(query)
    THEN Completed(Result(EmptyQueryText, Undefined, Null, "EMPTY_QUERY"), <<ResolverCallEvent>>)
    ELSE IF ~IsString(query)
    THEN Failed(Error("ResponseGenerationError", "Query must be a string"))
    ELSE Invoked(AfterMatch(findMatchingIntent(query, catalog), metrics, randomIndex))

\* the try block
TryGenerate(query, catalog, metrics, randomIndex) ==
    IF ~Truthy(query)
    THEN Completed(Result(EmptyQueryText, Undefined, Null, "EMPTY_QUERY"), <<>>)
    ELSE IF ~IsString(query)
    THEN Failed(Error("ResponseGenerationError", "Query must be a string"))
    ELSE Invoked(AfterMatch(findMatchingIntent(query, catalog), metrics, randomIndex))

\* variant: only resolver errors are mapped to a result, the rest are rethrown
CatchOutcomeRethrow(e) ==
    IF e.name = "IntentMatchError"
    THEN [kind |-> "return", result |-> CatchResult(e), err |-> NoError]
    ELSE [kind |-> "throw", result |-> NoResult, err |-> e]

\* the catch block always returns; nothing is rethrown
CatchOutcome(e) == [kind |-> "return", result |-> CatchResult(e), err |-> NoError]

\* the catch and finally blocks, c the catch block's outcome
Caught(t, c, metrics) ==
    [kind |-> c.kind, result |-> c.result, err |-> c.err,
     events |-> t.events \o CatchEvents(t.err, metrics) \o FinallyEvents(metrics)
                \o <<IF c.kind = "return" THEN ReturnEvent ELSE ThrowEvent(c.err)>>]

\* the call after its try block, t what the try block did
Finish(t, metrics) ==
    IF t.thrown
    THEN Caught(t, CatchOutcome(t.err), metrics)
    ELSE [kind |-> "return", result |-> t.result, err |-> NoError,
          events |-> t.events \o FinallyEvents(metrics) \o <<ReturnEvent>>]

\* the whole call: [kind, result, err, events]
generateResponse(query, catalog, metrics, randomIndex) ==
    Finish(TryGenerate(query, catalog, metrics, randomIndex), metrics)

(***************************************************************************)
(* Inputs                                                                  *)
(***************************************************************************)
S_abcd == <<"a", "b", " ", "c", "d">>

S_cuts == <<"c", "u", "t", "s">>

\* 'b b aaaaaad' and 'aaaaaaa c': the query scores (0.7 * 3/7 + 0.6 * 1/3 + 0.9 * 1/3) / 3.2,
\* exactly 0.25 (also in the double arithmetic of the code), against the pattern
S_boundary == <<"b", " ", "b", " ", "a", "a", "a", "a", "a", "a", "d">>

S_near == <<"a", "a", "a", "a", "a", "a", "a", " ", "c">>

IntentA == Entry(Str(<<"A">>), Arr(<<Str(S_abcd)>>), Arr(<<Str(<<"r", "1">>), Str(<<"r", "2">>)>>))

\* same pattern as IntentA after a malformed one and an empty one; no responses
IntentB == Entry(Str(<<"B">>), Arr(<<Num(123), Str(<<>>), Str(S_abcd)>>), Arr(<<>>))

\* responses: only the second one is a valid non-empty string
IntentC == Entry(Str(<<"C">>), Arr(<<Str(S_cuts)>>), Arr(<<Null, Str(<<"o", "k">>), Str(<<" ">>)>>))

\* no patterns at all
IntentD == Entry(Str(<<"D">>), Arr(<<>>), Arr(<<Str(<<"r">>)>>))

\* the boundary pattern, and the pattern 'xy ' with a trailing space
IntentT ==
    Entry(Str(<<"T">>), Arr(<<Str(S_boundary), Str(<<"x", "y", " ">>)>>), Arr(<<Str(<<"r">>)>>))

\* { tag: 'M', responses: [...] }
MissingProps == Entry(Str(<<"M">>), Undefined, Arr(<<Str(<<"r">>)>>))

\* { tag: 'N', patterns: 'p', responses: [] }
NotArrays == Entry(Str(<<"N">>), Str(<<"p">>), Arr(<<>>))

\* { tag: '', patterns: [...], responses: [...] }
EmptyTag == Entry(Str(<<>>), Arr(<<Str(S_abcd)>>), Arr(<<Str(<<"r">>)>>))

\* the entries the loader is tried on, in every order
EntryPool == {IntentA, IntentB, MissingProps, NotArrays, NullEntry}

Catalog(items) == Raw("object", 0, Arr(items))

PoolCatalogs ==
    { Catalog(items) : items \in UNION { [1..n -> EntryPool] : n \in 1..MaxIntents } }

\* null, undefined, 0, a function, {}, { intents: null }, { intents: '' },
\* { intents: 'x' }, { intents: {} }, { intents: [] }
StructuralRaws ==
    { Raw("null", 0, Undefined), Raw("undefined", 0, Undefined), Raw("number", 0, Undefined),
      Raw("function", 0, Undefined), Raw("object", 0, Undefined), Raw("object", 0, Null),
      Raw("object", 0, Str(<<>>)), Raw("object", 0, Str(<<"x">>)), Raw("object", 0, Obj),
      Catalog(<<>>) }

CatalogABC == Catalog(<<IntentA, IntentB, IntentC>>)

CatalogBA == Catalog(<<IntentB, IntentA>>)

CatalogTD == Catalog(<<IntentT, IntentD>>)

\* the arguments of loadIntents in the loader's own specification
RawCatalogs ==
    StructuralRaws \cup PoolCatalogs \cup {CatalogABC, CatalogTD, Catalog(<<EmptyTag>>)}

\* the arguments of loadIntents when calls of all kinds interleave
LoadCatalogs ==
    { Raw("null", 0, Undefined), Raw("object", 0, Undefined), Catalog(<<>>),
      Catalog(<<NotArrays, MissingProps>>), Catalog(<<IntentA, NullEntry>>),
      CatalogABC, CatalogBA, CatalogTD }

\* options.intentsData of the constructor
ConstructorCatalogs ==
    { Raw("undefined", 0, Undefined), Raw("null", 0, Undefined),
      Catalog(<<MissingProps>>), CatalogABC }

Queries ==
    { Undefined, Null, Str(<<>>), Str(<<" ">>), Str(<<"\t", " ">>),
      Num(0), Num(123), Bool(FALSE), Bool(TRUE), Obj, Sym,
      Str(S_abcd), Str(<<" ", "A", "B", " ", "c", "d">>), Str(<<"a", "b">>),
      Str(<<"a", "c">>), Str(<<"x", "y">>), Str(<<"C", "U", "T", "S">>), Str(S_near) }

\* the queries of the specification that records earlier observations
HistoryQueries == { Null, Num(123), Str(S_abcd), Str(<<"x", "y">>), Str(S_near) }

HistoryCatalogs == { Catalog(<<>>), CatalogBA, CatalogTD }

\* { tag: 'E', patterns: ['ab cd'] } and { tag: 'F', responses: ['r'] }
IntentNoResponses == Entry(Str(<<"E">>), Arr(<<Str(S_abcd)>>), Undefined)

IntentNoPatterns == Entry(Str(<<"F">>), Undefined, Arr(<<Str(<<"r">>)>>))

\* values assigned to the intents field directly
AssignedCatalogs ==
    { Null, Arr(<<>>), Arr(<<NullEntry>>), Arr(<<IntentNoPatterns, IntentNoResponses>>),
      Arr(<<IntentC>>) }

(***************************************************************************)
(* Chat history in localStorage                                            *)
(***************************************************************************)
\* const MAX_HISTORY_LENGTH = 50
MAX_HISTORY_LENGTH == 50

\* variant: a fixed text is lost
TextValueOnly(fixed, value) == [fixed |-> "", value |-> value]

\* a message text: a fixed text, or a string value (what was typed, a selected response)
Text(fixed, value) == [fixed |-> fixed, value |-> value]

\* { text, sender, timestamp, intent }; a user message has no intent property.
\* Timestamps are ordinals in the order of creation.
Message(text, sender, timestamp, intent) ==
    [text |-> text, sender |-> sender, timestamp |-> timestamp, intent |-> intent]

\* localStorage.getItem(CHAT_HISTORY_KEY) === null
NoItem == [present |-> FALSE, json |-> <<>>]

\* JSON.stringify(history): an array of objects; a property whose value is
\* undefined is left out of the text
JSONStringify(history) ==
    [k \in 1..Len(history) |->
        [f \in (IF history[k].intent = Undefined
                THEN {"text", "sender", "timestamp"}
                ELSE {"text", "sender", "timestamp", "intent"}) |-> history[k][f]]]

\* history ? JSON.parse(history) : []; a property that is not in the text
\* reads as undefined
loadChatHistory(item) ==
    IF ~item.present
    THEN <<>>
    ELSE [k \in 1..Len(item.json) |->
            [f \in {"text", "sender", "timestamp", "intent"} |->
                IF f \in DOMAIN item.json[k] THEN item.json[k][f] ELSE Undefined]]

\* variant: the oldest MAX_HISTORY_LENGTH messages are kept
KeepOldest(history) ==
    IF Len(history) > MAX_HISTORY_LENGTH
    THEN SubSeq(history, 1, MAX_HISTORY_LENGTH)
    ELSE history

\* if (history.length > MAX_HISTORY_LENGTH) history = history.slice(-MAX_HISTORY_LENGTH)
KeepLatest(history) ==
    IF Len(history) > MAX_HISTORY_LENGTH
    THEN SubSeq(history, Len(history) - MAX_HISTORY_LENGTH + 1, Len(history))
    ELSE history

\* the item after saveMessageToHistory(message)
saveMessageToHistory(item, message) ==
    [present |-> TRUE,
     json |-> JSONStringify(KeepLatest(Append(loadChatHistory(item), message)))]

(***************************************************************************)
(* State machine                                                           *)
(***************************************************************************)
NoRaw == Raw("undefined", 0, Undefined)

Call(op, raw, query, kind, err, intent, result, read) ==
    [op |-> op, raw |-> raw, query |-> query, kind |-> kind, err |-> err,
     intent |-> intent, result |-> result, read |-> read]

NoMemo == [seen |-> FALSE, catalog |-> Undefined, query |-> Undefined,
           outcome |-> Returned(NullEntry), others |-> FALSE]

\* history: a call with another query has been made since the observation
Observed(query) ==
    IF memo.seen /\ query # memo.query THEN [memo EXCEPT !.others = TRUE] ELSE memo

\* new ChatbotService({ logger?, metrics? }): no catalog supplied; this.logger is
\* the supplied logger or console.error, a function either way
Init ==
    /\ intents = Arr(<<>>)
    /\ hasMetrics \in BOOLEAN
    /\ last = Call("constructor", NoRaw, Undefined, "return", NoError, NullEntry, NoResult, Undefined)
    /\ events = <<ReturnEvent>>
    /\ loaded = Arr(<<>>)
    /\ memo = NoMemo
    /\ storage = NoItem
    /\ messages = <<>>
    /\ inputText = <<>>
    /\ isLoading = FALSE
    /\ errorMessage = "null"
    /\ openDialog = FALSE
    /\ snackbar = [open |-> FALSE, message |-> "", severity |-> "success"]
    /\ pending = {}
    /\ clock = 0
    /\ clearedUpTo = 0

\* new ChatbotService(options): a construction that throws yields no instance,
\* the instance in use stays as it is
Construct(intentsData, metrics) ==
    \E e \in {IF RawTruthy(intentsData) THEN ValidationError(intentsData) ELSE NoError} :
       /\ last' = Call("constructor", intentsData, Undefined,
                       IF e = NoError THEN "return" ELSE "throw",
                       IF e = NoError THEN NoError ELSE WrapLoadError(e),
                       NullEntry, NoResult, Undefined)
       /\ events' = IF RawTruthy(intentsData)
                    THEN loadIntentsEvents(intentsData, metrics)
                    ELSE <<ReturnEvent>>
       /\ IF e = NoError
          THEN /\ intents' = IF RawTruthy(intentsData)
                             THEN InstalledAfterLoad(intentsData, Arr(<<>>))
                             ELSE Arr(<<>>)
               /\ loaded' = IF RawTruthy(intentsData) THEN intentsData.intents ELSE Arr(<<>>)
               /\ hasMetrics' = metrics
               /\ memo' = NoMemo
               /\ UNCHANGED chatVars
          ELSE UNCHANGED <<chatVars, intents, loaded, hasMetrics, memo>>

LoadIntents(intentsData) ==
    \E e \in {ValidationError(intentsData)} :
       /\ intents' = InstalledAfterLoad(intentsData, intents)
       /\ events' = loadIntentsEvents(intentsData, hasMetrics)
       /\ last' = Call("loadIntents", intentsData, Undefined,
                       IF e = NoError THEN "return" ELSE "throw",
                       IF e = NoError THEN NoError ELSE WrapLoadError(e),
                       NullEntry, NoResult, Undefined)
       /\ loaded' = IF e = NoError THEN intentsData.intents ELSE loaded
       /\ UNCHANGED <<chatVars, hasMetrics, memo>>

FindMatchingIntent(query) ==
    \E m \in {findMatchingIntent(query, intents)} :
       /\ last' = Call("findMatchingIntent", NoRaw, query, m.kind, m.err, m.intent,
                       NoResult, intents)
       /\ events' = <<IF m.kind = "return" THEN ReturnEvent ELSE ThrowEvent(m.err)>>
       /\ memo' = Observed(query)
       /\ UNCHANGED <<chatVars, intents, hasMetrics, loaded>>

\* the random index is drawn among the responses of the matched intent
GenerateResponse(query) ==
    \E randomIndex \in RandomIndexes(query, intents) :
       \E g \in {generateResponse(query, intents, hasMetrics, randomIndex)} :
          /\ last' = Call("generateResponse", NoRaw, query, g.kind, g.err, NullEntry,
                          g.result, intents)
          /\ events' = g.events
          /\ memo' = Observed(query)
          /\ UNCHANGED <<chatVars, intents, hasMetrics, loaded>>

\* generateResponse with findMatchingIntent replaced by a function that throws
\* new Error('Test error'); the query is a non-empty string
GenerateResponseMocked(query) ==
    /\ Truthy(query)
    /\ IsString(query)
    /\ \E g \in {Finish(Invoked(AfterMatch(Thrown(Error("Error", "Test error")),
                                           hasMetrics, 0)), hasMetrics)} :
          /\ last' = Call("generateResponseMocked", NoRaw, query, g.kind, g.err, NullEntry,
                          g.result, intents)
          /\ events' = g.events
          /\ memo' = Observed(query)
          /\ UNCHANGED <<chatVars, intents, hasMetrics, loaded>>

\* _calculateStringSimilarity(str1, str2) called on its own
CalculateStringSimilarity(str1, str2) ==
    /\ last' = Call("_calculateStringSimilarity", NoRaw, Str(str1), "return", NoError,
                    NullEntry, _calculateStringSimilarity(str1, str2), Str(str2))
    /\ events' = <<ReturnEvent>>
    /\ UNCHANGED <<chatVars, intents, hasMetrics, loaded, memo>>

\* _calculateLevenshteinDistance(str1, str2) called on its own
CalculateLevenshteinDistance(str1, str2) ==
    /\ last' = Call("_calculateLevenshteinDistance", NoRaw, Str(str1), "return", NoError,
                    NullEntry, _calculateLevenshteinDistance(str1, str2), Str(str2))
    /\ events' = <<ReturnEvent>>
    /\ UNCHANGED <<chatVars, intents, hasMetrics, loaded, memo>>

\* service.intents = value
AssignIntents(value) ==
    /\ intents' = value
    /\ last' = Call("assign", NoRaw, Undefined, "return", NoError, NullEntry, NoResult, Undefined)
    /\ events' = <<ReturnEvent>>
    /\ UNCHANGED <<chatVars, hasMetrics, loaded, memo>>

\* history: keep the latest findMatchingIntent observation for later comparison
Remember ==
    /\ last.op = "findMatchingIntent"
    /\ memo' = [seen |-> TRUE, catalog |-> last.read, query |-> last.query,
                outcome |-> [kind |-> last.kind, intent |-> last.intent, err |-> last.err],
                others |-> FALSE]
    /\ UNCHANGED <<chatVars, intents, hasMetrics, last, events, loaded>>

Next ==
    \/ \E d \in ConstructorCatalogs, m \in BOOLEAN : Construct(d, m)
    \/ \E d \in LoadCatalogs : LoadIntents(d)
    \/ \E q \in Queries : FindMatchingIntent(q)
    \/ \E q \in Queries : GenerateResponse(q)

Spec == Init /\ [][Next]_vars

\* the loader alone, on every raw catalog
NextLoad ==
    \/ \E d \in ConstructorCatalogs, m \in BOOLEAN : Construct(d, m)
    \/ \E d \in RawCatalogs : LoadIntents(d)

SpecLoad == Init /\ [][NextLoad]_vars

\* the service with its intents field also assigned from outside
NextAssign ==
    \/ \E d \in {CatalogABC, Catalog(<<MissingProps>>)} : LoadIntents(d)
    \/ \E v \in AssignedCatalogs : AssignIntents(v)
    \/ \E q \in Queries : FindMatchingIntent(q)
    \/ \E q \in Queries : GenerateResponse(q)
    \/ \E q \in Queries : GenerateResponseMocked(q)

SpecAssign == Init /\ [][NextAssign]_vars

\* query-time calls, with an earlier observation kept for comparison
NextHistory ==
    \/ \E d \in HistoryCatalogs : LoadIntents(d)
    \/ \E q \in HistoryQueries : FindMatchingIntent(q)
    \/ \E q \in HistoryQueries : GenerateResponse(q)
    \/ Remember

SpecHistory == Init /\ [][NextHistory]_vars

\* the similarity function alone, on every pair of these strings
SimilarityStrings ==
    { <<>>, <<"a">>, <<"b">>, <<"a", "b">>, <<"b", "a">>, <<"a", "b", "c">>,
      S_cuts, <<"c", "u", "t">>, <<" ">> }

\* every string of at most MaxEditLen characters over a two-letter alphabet
EditStrings == UNION {[1..n -> {"a", "b"}] : n \in 0..MaxEditLen}

NextSimilarity ==
    \/ \E str1 \in SimilarityStrings, str2 \in SimilarityStrings :
          CalculateStringSimilarity(str1, str2)
    \/ \E str1 \in EditStrings, str2 \in EditStrings :
          CalculateLevenshteinDistance(str1, str2)

\* new ChatbotService(): the two functions use nothing of the instance
InitSimilarity == Init /\ ~hasMetrics

SpecSimilarity == InitSimilarity /\ [][NextSimilarity]_vars

\* the t-th message handed to saveMessageToHistory: the component saves a
\* user message (no intent property) and a bot message (intent: a tag or
\* null) in turn
HistoryMessage(t) ==
    IF t % 2 = 1
    THEN Message(Text("", Str(<<"h", "i">>)), "user", t, Undefined)
    ELSE Message(Text("", Str(<<"o", "k">>)), "bot", t,
                 IF t % 4 = 0 THEN Str(<<"C">>) ELSE Null)

\* chatbotService.saveMessageToHistory(message); localStorage.setItem may throw
SaveMessageToHistory(setItemThrows) ==
    /\ clock < MaxSaved
    /\ IF setItemThrows
       THEN /\ last' = Call("saveMessageToHistory", NoRaw, Undefined, "throw",
                            Error("ChatHistoryError", "Failed to save message to history: "),
                            NullEntry, Undefined, Undefined)
            /\ events' = <<ThrowEvent(Error("ChatHistoryError", "Failed to save message to history: "))>>
            /\ UNCHANGED <<storage, clock>>
       ELSE /\ storage' = saveMessageToHistory(storage, HistoryMessage(clock + 1))
            /\ clock' = clock + 1
            /\ last' = Call("saveMessageToHistory", NoRaw, Undefined, "return", NoError,
                            NullEntry, Undefined, Undefined)
            /\ events' = <<ReturnEvent>>
    /\ UNCHANGED <<intents, hasMetrics, loaded, memo, messages, inputText, isLoading,
                   errorMessage, openDialog, snackbar, pending, clearedUpTo>>

\* chatbotService.loadChatHistory()
LoadChatHistory ==
    /\ last' = Call("loadChatHistory", NoRaw, Undefined, "return", NoError, NullEntry,
                    loadChatHistory(storage), Undefined)
    /\ events' = <<ReturnEvent>>
    /\ UNCHANGED <<chatVars, intents, hasMetrics, loaded, memo>>

\* chatbotService.clearChatHistory(); localStorage.removeItem may throw
ClearChatHistory(removeItemThrows) ==
    /\ IF removeItemThrows
       THEN /\ last' = Call("clearChatHistory", NoRaw, Undefined, "throw",
                            Error("ChatHistoryError", "Failed to clear chat history: "),
                            NullEntry, Undefined, Undefined)
            /\ events' = <<ThrowEvent(Error("ChatHistoryError", "Failed to clear chat history: "))>>
            /\ UNCHANGED <<storage, clearedUpTo>>
       ELSE /\ storage' = NoItem
            /\ clearedUpTo' = clock
            /\ last' = Call("clearChatHistory", NoRaw, Undefined, "return", NoError,
                            NullEntry, Undefined, Undefined)
            /\ events' = <<ReturnEvent>>
    /\ UNCHANGED <<intents, hasMetrics, loaded, memo, messages, inputText, isLoading,
                   errorMessage, openDialog, snackbar, pending, clock>>

\* the three history methods of the service, in any order
NextChatHistory ==
    \/ \E setItemThrows \in BOOLEAN : SaveMessageToHistory(setItemThrows)
    \/ LoadChatHistory
    \/ \E removeItemThrows \in BOOLEAN : ClearChatHistory(removeItemThrows)

SpecChatHistory == InitSimilarity /\ [][NextChatHistory]_vars

(***************************************************************************)
(* The chat component.  A handler runs to its first await in one step; the  *)
(* rest of handleSubmit runs when the generateResponse request settles.     *)
(* A message's timestamp is its ordinal: an exchange takes two, the odd one *)
(* for the user's message and the even one for the reply.                   *)
(***************************************************************************)
\* the component is mounted (the page is loaded again): the state hooks start
\* from their initial values, a request of the earlier page is gone, and the
\* effect shows the stored history without duplicates
Mount ==
    /\ messages' =
          LET history == loadChatHistory(storage)
              uniqueMessages[k \in 0..Len(history)] ==
                 IF k = 0
                 THEN <<>>
                 ELSE IF \E j \in 1..Len(uniqueMessages[k - 1]) :
                            /\ uniqueMessages[k - 1][j].timestamp = history[k].timestamp
                            /\ uniqueMessages[k - 1][j].text = history[k].text
                            /\ uniqueMessages[k - 1][j].sender = history[k].sender
                      THEN uniqueMessages[k - 1]
                      ELSE Append(uniqueMessages[k - 1], history[k])
          IN  uniqueMessages[Len(history)]
    /\ inputText' = <<>>
    /\ isLoading' = FALSE
    /\ errorMessage' = "null"
    /\ openDialog' = FALSE
    /\ snackbar' = [open |-> FALSE, message |-> "", severity |-> "success"]
    /\ pending' = {}
    /\ last' = Call("mount", NoRaw, Undefined, "return", NoError, NullEntry, NoResult, Undefined)
    /\ events' = <<ReturnEvent>>
    /\ UNCHANGED <<intents, hasMetrics, loaded, memo, storage, clock, clearedUpTo>>

\* onChange of the text field, which is disabled while isLoading and is
\* behind the dialog while the dialog is open
SetInputText(text) ==
    /\ ~isLoading
    /\ ~openDialog
    /\ inputText' = text
    /\ last' = Call("setInputText", NoRaw, Str(text), "return", NoError, NullEntry, NoResult,
                    Undefined)
    /\ events' = <<ReturnEvent>>
    /\ UNCHANGED <<intents, hasMetrics, loaded, memo, storage, messages, isLoading,
                   errorMessage, openDialog, snackbar, pending, clock, clearedUpTo>>

\* variant: the text is submitted as typed
SubmittedQueryUntrimmed(text) == text

\* const query = inputText.trim()
SubmittedQuery(text) == trim(text)

\* handleSubmit up to await chatbotService.generateResponse(query); the form
\* controls are disabled while isLoading.  The call at the await is made
\* here: its promise will be rejected, or will resolve to what the service
\* answers with the catalog [IntentC].  localStorage works: the catch around
\* saveMessageToHistory, which only logs, is not entered.
HandleSubmit(rejected) ==
    /\ ~isLoading
    /\ ~openDialog
    /\ last' = Call("handleSubmit", NoRaw, Str(inputText), "return", NoError, NullEntry,
                    NoResult, Undefined)
    /\ IF SubmittedQuery(inputText) = <<>>
       THEN /\ events' = <<ReturnEvent>>
            /\ UNCHANGED <<storage, messages, inputText, isLoading, errorMessage, pending, clock>>
       ELSE /\ clock < 2 * MaxExchanges
            /\ errorMessage' = "null"
            /\ isLoading' = TRUE
            /\ messages' = Append(messages, Message(Text("", Str(SubmittedQuery(inputText))), "user",
                                                    clock + 1, Undefined))
            /\ storage' = saveMessageToHistory(
                              storage, Message(Text("", Str(SubmittedQuery(inputText))), "user",
                                               clock + 1, Undefined))
            /\ inputText' = <<>>
            /\ IF rejected
               THEN pending' = pending \cup {[query |-> SubmittedQuery(inputText), timestamp |-> clock + 2,
                                              rejected |-> TRUE, response |-> NoResult]}
               ELSE \E randomIndex \in RandomIndexes(Str(SubmittedQuery(inputText)), Arr(<<IntentC>>)) :
                       \E g \in {generateResponse(Str(SubmittedQuery(inputText)), Arr(<<IntentC>>),
                                                  hasMetrics, randomIndex)} :
                          pending' = pending \cup {[query |-> SubmittedQuery(inputText),
                                                    timestamp |-> clock + 2,
                                                    rejected |-> FALSE, response |-> g.result]}
            /\ clock' = clock + 2
            /\ events' = <<Event("generateResponse", "", "", Str(SubmittedQuery(inputText)))>>
    /\ UNCHANGED <<intents, hasMetrics, loaded, memo, openDialog, snackbar, clearedUpTo>>

\* variant: setIsLoading(false) at the end of the try block only
IsLoadingAfterSettleStuck(rejected) == rejected

\* finally { setIsLoading(false) }: isLoading after the request has settled
IsLoadingAfterSettle(rejected) == FALSE

\* the rest of handleSubmit, when the request settles; the failure message
\* of the catch block is not saved
Settle ==
    \E r \in pending :
       /\ IF r.rejected
          THEN /\ errorMessage' = "Failed to process your message. Please try again."
               /\ messages' = Append(messages,
                                     Message(Text("Failed to process your message. Please try again.",
                                                  Undefined), "bot", r.timestamp, Null))
               /\ last' = Call("handleSubmit.catch", NoRaw, Str(r.query), "throw",
                               Error("Error", "Test error"), NullEntry, NoResult, Undefined)
               /\ UNCHANGED storage
          ELSE /\ messages' = Append(messages,
                                     Message(Text(r.response.answerText, r.response.answer),
                                             "bot", r.timestamp, r.response.intent))
               /\ storage' = saveMessageToHistory(
                                 storage,
                                 Message(Text(r.response.answerText, r.response.answer),
                                         "bot", r.timestamp, r.response.intent))
               /\ last' = Call("handleSubmit.resolved", NoRaw, Str(r.query), "return",
                               NoError, NullEntry, r.response, Undefined)
               /\ UNCHANGED errorMessage
       /\ isLoading' = IsLoadingAfterSettle(r.rejected)
       /\ pending' = pending \ {r}
       /\ events' = <<ReturnEvent>>
       /\ UNCHANGED <<intents, hasMetrics, loaded, memo, inputText, openDialog, snackbar,
                      clock, clearedUpTo>>

\* handleOpenClearDialog (the Clear Chat button, which is never disabled) is
\* setOpenDialog(true); handleCloseDialog (the dialog's Cancel button and
\* onClose) is setOpenDialog(false)
SetOpenDialog(open) ==
    /\ openDialog # open
    /\ openDialog' = open
    /\ last' = Call(IF open THEN "handleOpenClearDialog" ELSE "handleCloseDialog", NoRaw,
                    Undefined, "return", NoError, NullEntry, NoResult, Undefined)
    /\ events' = <<ReturnEvent>>
    /\ UNCHANGED <<intents, hasMetrics, loaded, memo, storage, messages, inputText, isLoading,
                   errorMessage, snackbar, pending, clock, clearedUpTo>>

\* the dialog's Clear button: handleClearChat; clearChatHistory may throw
HandleClearChat(removeItemThrows) ==
    /\ openDialog
    /\ openDialog' = FALSE
    /\ IF removeItemThrows
       THEN /\ snackbar' = [open |-> TRUE,
                            message |-> "Failed to clear chat history. Please try again.",
                            severity |-> "error"]
            /\ last' = Call("handleClearChat", NoRaw, Undefined, "throw",
                            Error("ChatHistoryError", "Failed to clear chat history: "),
                            NullEntry, NoResult, Undefined)
            /\ UNCHANGED <<storage, messages, clearedUpTo>>
       ELSE /\ storage' = NoItem
            /\ messages' = <<>>
            /\ snackbar' = [open |-> TRUE, message |-> "Chat history cleared successfully",
                            severity |-> "success"]
            /\ clearedUpTo' = clock
            /\ last' = Call("handleClearChat", NoRaw, Undefined, "return", NoError,
                            NullEntry, NoResult, Undefined)
    /\ events' = <<ReturnEvent>>
    /\ UNCHANGED <<intents, hasMetrics, loaded, memo, inputText, isLoading, errorMessage,
                   pending, clock>>

\* what the user and the event loop can do with the mounted component
NextChat ==
    \/ Mount
    \/ \E text \in {<<" ">>, <<"h", "i">>, <<" ">> \o S_cuts} : SetInputText(text)
    \/ \E rejected \in BOOLEAN : HandleSubmit(rejected)
    \/ Settle
    \/ \E open \in BOOLEAN : SetOpenDialog(open)
    \/ \E removeItemThrows \in BOOLEAN : HandleClearChat(removeItemThrows)

\* the component with the instance of chatbotInstance.js (no metrics); a
\* request that was started settles: its continuation is run by the event loop
SpecChat ==
    /\ InitSimilarity
    /\ [][NextChat]_vars
    /\ WF_vars(Settle)

(***************************************************************************)
(* Properties                                                              *)
(***************************************************************************)
QueryOps == {"findMatchingIntent", "generateResponse"}

LoadOps == {"loadIntents", "constructor"}

ErrorKinds == {"null", "EMPTY_QUERY", "NO_MATCH", "INTENT_MATCH_ERROR", "INTERNAL_ERROR"}

\* answer is a non-empty string: a fixed text, or a selected response
NonEmptyAnswer(r) ==
    \/ r.answerText # "" /\ r.answer = Undefined
    \/ r.answerText = "" /\ IsString(r.answer) /\ Len(r.answer.str) > 0

WellFormedResult(r) ==
    /\ NonEmptyAnswer(r)
    /\ r.intent = Null \/ IsString(r.intent)
    /\ r.error \in ErrorKinds

\* C1: generateResponse never raises: for every query value and every catalog
\* state, with or without metrics, the call returns an object whose answer is a
\* non-empty string, whose intent is a string or null and whose error is a
\* string or null.
C1_NeverRaises ==
    last.op = "generateResponse" =>
        /\ last.kind = "return"
        /\ WellFormedResult(last.result)
        /\ events[Len(events)] = ReturnEvent

\* a call on a catalog set to null, without metrics, answered with the match-error result
C1_Witness ==
    /\ last.op = "generateResponse"
    /\ intents = Null
    /\ ~hasMetrics
    /\ last.result.error = "INTENT_MATCH_ERROR"

\* the checks of the loader, stated on one entry
ViolatesPresence(intent) ==
    ~Truthy(intent.tag) \/ ~Truthy(intent.patterns) \/ ~Truthy(intent.responses)

ViolatesArrays(intent) == ~IsArray(intent.patterns) \/ ~IsArray(intent.responses)

NoNullEntry(d) ==
    RawTruthy(d) /\ IsArray(d.intents)
        => \A k \in 1..Len(d.intents.items) : d.intents.items[k].type # "null"

\* the message of the lowest-numbered check that the raw catalog violates anywhere
LowestNumberedMessage(d) ==
    IF ~RawTruthy(d) THEN MsgMissing
    ELSE IF ~Truthy(d.intents) THEN MsgNoIntents
    ELSE IF ~IsArray(d.intents) THEN MsgNotArray
    ELSE IF Len(d.intents.items) = 0 THEN MsgEmpty
    ELSE IF \E k \in 1..Len(d.intents.items) : ViolatesPresence(d.intents.items[k])
    THEN MsgMissingProps
    ELSE IF \E k \in 1..Len(d.intents.items) : ViolatesArrays(d.intents.items[k])
    THEN MsgNotArrays
    ELSE ""

\* the message of the first violation met when the entries are checked one by one
FirstViolationMessage(d) ==
    IF ~RawTruthy(d) THEN MsgMissing
    ELSE IF ~Truthy(d.intents) THEN MsgNoIntents
    ELSE IF ~IsArray(d.intents) THEN MsgNotArray
    ELSE IF Len(d.intents.items) = 0 THEN MsgEmpty
    ELSE LET items == d.intents.items
             bad == { k \in 1..Len(items) :
                        ViolatesPresence(items[k]) \/ ViolatesArrays(items[k]) }
             first == CHOOSE k \in bad : \A j \in bad : k <= j
         IN IF bad = {} THEN ""
            ELSE IF ViolatesPresence(items[first]) THEN MsgMissingProps ELSE MsgNotArrays

\* C2 (as claimed): the error raised carries the message of the lowest-numbered
\* check that the raw catalog violates.
C2_LowestNumberedCheck ==
    (last.op = "loadIntents" /\ last.kind = "throw" /\ NoNullEntry(last.raw)) =>
        last.err.message = LowestNumberedMessage(last.raw)

\* C2 (amended): checks 1 to 4 are made in order on the whole input; checks 5
\* and 6 are made entry by entry in catalog order, so the error raised carries
\* the message of the first violation in that traversal, and the call fails
\* exactly when there is one.
C2_FirstViolationWins ==
    (last.op = "loadIntents" /\ NoNullEntry(last.raw)) =>
        /\ last.kind = "throw" <=> FirstViolationMessage(last.raw) # ""
        /\ last.kind = "throw" =>
              /\ last.err.name = "IntentLoadError"
              /\ last.err.message = FirstViolationMessage(last.raw)

\* an earlier entry with non-array patterns wins over a later entry with a missing property
C2_Witness ==
    /\ last.op = "loadIntents"
    /\ last.raw = Catalog(<<NotArrays, MissingProps>>)
    /\ last.err.message = MsgNotArrays

\* C3 (as claimed): every installed intent has a non-empty label, at least one
\* pattern and at least one response.
C3_NoEmptyIntentInstalled ==
    IsArray(intents) =>
        \A k \in 1..Len(intents.items) :
            /\ Truthy(intents.items[k].tag)
            /\ IsArray(intents.items[k].patterns) /\ Len(intents.items[k].patterns.items) >= 1
            /\ IsArray(intents.items[k].responses) /\ Len(intents.items[k].responses.items) >= 1

\* an entry the loader accepts: a label, and patterns and responses that are arrays
AcceptedEntry(intent) ==
    /\ intent.type = "object"
    /\ Truthy(intent.tag)
    /\ IsArray(intent.patterns)
    /\ IsArray(intent.responses)

\* C3 (amended): after a successful loadIntents the installed catalog is the
\* loaded array, it is non-empty and every intent in it has a non-empty label
\* and patterns and responses that are arrays, possibly empty ones; a raw
\* catalog with an entry that lacks a label or whose patterns or responses is
\* absent or not an array is rejected and never installed.
C3_InstalledShape ==
    /\ IsArray(intents)
    /\ \A k \in 1..Len(intents.items) : AcceptedEntry(intents.items[k])
    /\ (last.op = "loadIntents" /\ last.kind = "return") =>
          /\ intents = last.raw.intents
          /\ Len(intents.items) > 0
    /\ (/\ last.op = "loadIntents"
        /\ RawTruthy(last.raw) /\ IsArray(last.raw.intents)
        /\ \E k \in 1..Len(last.raw.intents.items) : ~AcceptedEntry(last.raw.intents.items[k]))
       => last.kind = "throw" /\ last.err.name = "IntentLoadError"

\* a catalog with an intent that has no responses was loaded and installed
C3_Witness ==
    /\ last.op = "loadIntents"
    /\ last.kind = "return"
    /\ \E k \in 1..Len(intents.items) : Len(intents.items[k].responses.items) = 0

QueriesKeepService ==
    [][last'.op \in QueryOps => intents' = intents /\ hasMetrics' = hasMetrics /\ loaded' = loaded]_vars

\* C5: the installed catalog is always, as a whole, the array of the latest
\* successful load (the empty array before any), that is what a query-time
\* call reads, and a loadIntents call that fails leaves the catalog unchanged.
C5_AtomicReplacement ==
    /\ [](/\ intents = loaded
          /\ last.op \in QueryOps => last.read = loaded)
    /\ [][(last'.op = "loadIntents" /\ last'.kind = "throw") => intents' = intents]_vars

\* a failed load after a successful one: the earlier catalog is still installed
C5_Witness ==
    /\ last.op = "loadIntents"
    /\ last.kind = "throw"
    /\ Len(intents.items) > 0

\* a query with at least one word after normalization
HasWords(query) == IsString(query) /\ Len(trim(toLowerCase(query.str))) > 0

\* the score of one intent against the query
ScoreOf(query, intent) ==
    IF HasWords(query) /\ IsArray(intent.patterns)
    THEN IntentScore(trim(toLowerCase(query.str)), Words(trim(toLowerCase(query.str))),
                     intent.patterns.items, 1, Zero)
    ELSE Zero

\* the intents with the highest score, as positions in the catalog
BestPositions(query, catalog) ==
    { k \in 1..Len(catalog.items) :
        \A j \in 1..Len(catalog.items) :
            RLeq(ScoreOf(query, catalog.items[j]), ScoreOf(query, catalog.items[k])) }

\* a resolver call on a non-empty string query and a non-empty catalog
Resolved ==
    /\ last.op = "findMatchingIntent"
    /\ IsString(last.query) /\ Len(last.query.str) > 0
    /\ IsArray(last.read) /\ Len(last.read.items) > 0
    /\ \A k \in 1..Len(last.read.items) : last.read.items[k].type # "null"

\* C6: for a non-empty string query and a non-empty catalog the resolver returns
\* a best-scoring intent if and only if the best score is at least 1/4, and
\* null when it is below.
C6_ThresholdInclusive ==
    Resolved =>
        /\ last.kind = "return"
        /\ \A k \in BestPositions(last.query, last.read) :
              IF RLeq(<<1, 4>>, ScoreOf(last.query, last.read.items[k]))
              THEN /\ last.intent.type # "null"
                   /\ ScoreOf(last.query, last.intent) = ScoreOf(last.query, last.read.items[k])
              ELSE last.intent = NullEntry

\* an intent scoring exactly 1/4 was returned
C6_Witness ==
    /\ Resolved
    /\ last.intent.type # "null"
    /\ ScoreOf(last.query, last.intent) = <<1, 4>>

\* C7: when several intents share the highest score, the resolver returns the
\* one that comes first in the catalog.
C7_FirstWinsTies ==
    (Resolved /\ last.kind = "return" /\ last.intent.type # "null") =>
        LET best == BestPositions(last.query, last.read)
            first == CHOOSE k \in best : \A j \in best : k <= j
        IN last.intent = last.read.items[first]

\* two different intents tied for the highest score and the first was returned
C7_Witness ==
    /\ Resolved
    /\ last.intent.type # "null"
    /\ \E j, k \in BestPositions(last.query, last.read) :
          j < k /\ last.read.items[j] # last.read.items[k] /\ last.intent = last.read.items[j]

C9_NonStringFails ==
    (last.op = "findMatchingIntent" /\ last.query.type \notin {"undefined", "null", "string"}) =>
        /\ last.kind = "throw"
        /\ last.err = Error("IntentMatchError", "Query must be a string")

\* C10 (as claimed): an absent, empty or whitespace-only query makes the
\* resolver return null, whatever the catalog.
C10_EmptyQueryReturnsNull ==
    (/\ last.op = "findMatchingIntent"
     /\ \/ last.query.type \in {"undefined", "null"}
        \/ IsString(last.query) /\ Len(trim(last.query.str)) = 0) =>
        /\ last.kind = "return"
        /\ last.intent = NullEntry

\* a query that is a non-empty string
PresentString(query) == Truthy(query) /\ IsString(query)

\* a catalog, or a responses array, that is missing or empty
EmptyOrNoArray(v) == ~Truthy(v) \/ ~IsArray(v) \/ Len(v.items) = 0

FacadeOps == {"generateResponse", "generateResponseMocked"}

\* C11: with an empty or missing catalog the resolver fails on a non-empty
\* string query with IntentMatchError('No intents available for matching');
\* generateResponse reports a failure of the resolver (always an
\* IntentMatchError) as INTENT_MATCH_ERROR with intent null, and only that; any
\* other failure (a resolver replaced by one throwing a plain Error, a matched
\* intent without usable responses, a query that is not a string) is reported
\* as INTERNAL_ERROR with intent null.
C11_ResolverFailuresReported ==
    /\ (last.op = "findMatchingIntent" /\ PresentString(last.query) /\ EmptyOrNoArray(last.read)) =>
          /\ last.kind = "throw"
          /\ last.err = Error("IntentMatchError", "No intents available for matching")
    /\ (last.op = "generateResponse" /\ PresentString(last.query)) =>
          \A m \in {findMatchingIntent(last.query, last.read)} :
             /\ m.kind = "throw" =>
                   /\ m.err.name = "IntentMatchError"
                   /\ last.result.error = "INTENT_MATCH_ERROR"
                   /\ last.result.intent = Null
                   /\ last.result.answerText = MatchErrorText
             /\ m.kind = "return" => last.result.error # "INTENT_MATCH_ERROR"
             /\ (m.kind = "return" /\ m.intent.type # "null" /\ EmptyOrNoArray(m.intent.responses)) =>
                   /\ last.result.error = "INTERNAL_ERROR"
                   /\ last.result.intent = Null
    /\ (last.op = "generateResponse" /\ Truthy(last.query) /\ ~IsString(last.query)) =>
          /\ last.result.error = "INTERNAL_ERROR"
          /\ last.result.intent = Null
    /\ last.op = "generateResponseMocked" =>
          /\ last.kind = "return"
          /\ last.result.error = "INTERNAL_ERROR"
          /\ last.result.intent = Null
    /\ (last.op = "generateResponse" /\ PresentString(last.query)
        /\ EmptyOrNoArray(last.read)) =>
          last.result.error = "INTENT_MATCH_ERROR"

\* generateResponse asked a service whose catalog is missing and reported the
\* resolver's failure
C11_Witness ==
    /\ last.op = "generateResponse"
    /\ PresentString(last.query)
    /\ last.read = Null
    /\ last.result.error = "INTENT_MATCH_ERROR"
    /\ last.result.intent = Null

\* C12: for an absent or empty query (undefined, null, '') generateResponse
\* returns the fixed apology text with intent null and error EMPTY_QUERY, and
\* the resolver, hence the scoring, is not called during that call.
C12_EmptyQueryShortCircuits ==
    (last.op = "generateResponse" /\ last.query \in {Undefined, Null, Str(<<>>)}) =>
        /\ last.kind = "return"
        /\ last.result = Result(EmptyQueryText, Undefined, Null, "EMPTY_QUERY")
        /\ \A k \in 1..Len(events) : events[k] # ResolverCallEvent

\* an empty query was answered by a service that has a catalog to match against
C12_Witness ==
    /\ last.op = "generateResponse"
    /\ last.query = Str(<<>>)
    /\ IsArray(last.read)
    /\ Len(last.read.items) > 0
    /\ last.result.error = "EMPTY_QUERY"

\* C13 (as claimed): every present query value that is not a string, the falsy
\* ones 0 and false included, makes generateResponse return error
\* INTERNAL_ERROR with intent null.
C13_NonStringIsInternalError ==
    (last.op = "generateResponse" /\ last.query.type \notin {"undefined", "null", "string"}) =>
        /\ last.kind = "return"
        /\ last.result.error = "INTERNAL_ERROR"
        /\ last.result.intent = Null

\* C14: whenever the resolver returns no match for a non-empty string query,
\* generateResponse returns exactly the fixed fallback text with intent null
\* and error NO_MATCH.
C14_NoMatchResult ==
    (/\ last.op = "generateResponse"
     /\ PresentString(last.query)
     /\ findMatchingIntent(last.query, last.read) = Returned(NullEntry)) =>
        /\ last.kind = "return"
        /\ last.result = Result(NoMatchText, Undefined, Null, "NO_MATCH")

\* a query with words, none close to a pattern of the loaded catalog, was answered
C14_Witness ==
    /\ last.op = "generateResponse"
    /\ PresentString(last.query)
    /\ Len(trim(last.query.str)) > 0
    /\ IsArray(last.read)
    /\ Len(last.read.items) > 0
    /\ findMatchingIntent(last.query, last.read) = Returned(NullEntry)
    /\ last.result.error = "NO_MATCH"

\* the positions of the valid responses of an intent: non-empty strings after trim
ValidResponses(intent) ==
    IF IsArray(intent.responses)
    THEN {k \in 1..Len(intent.responses.items) : ~InvalidResponse(intent.responses.items[k])}
    ELSE {}

\* C15 (as claimed): on a match generateResponse yields INTERNAL_ERROR exactly
\* when the matched intent has no valid non-empty response string; when it has
\* one, every outcome of the random choice returns error null, the matched
\* label and an answer that is one of the intent's valid response strings.
C15_ChoosesAmongValidResponses ==
    (last.op = "generateResponse" /\ PresentString(last.query)) =>
        \A m \in {findMatchingIntent(last.query, last.read)} :
           (m.kind = "return" /\ m.intent.type # "null") =>
              /\ last.result.error = "INTERNAL_ERROR" <=> ValidResponses(m.intent) = {}
              /\ ValidResponses(m.intent) # {} =>
                    /\ last.result.error = "null"
                    /\ last.result.intent = m.intent.tag
                    /\ \E k \in ValidResponses(m.intent) :
                          last.result.answer = m.intent.responses.items[k]

\* C16: when the service has a metrics collaborator, every generateResponse
\* call calls recordResponseTime before it returns, whichever way it ends
\* (EMPTY_QUERY, NO_MATCH, an answer, INTENT_MATCH_ERROR, INTERNAL_ERROR); the
\* call in the finally block is the last thing done before the return.
C16_LatencyAlwaysRecorded ==
    (hasMetrics /\ last.op \in FacadeOps) =>
        /\ last.kind = "return"
        /\ last.result.error \in ErrorKinds
        /\ Len(events) >= 2
        /\ events[Len(events)] = ReturnEvent
        /\ events[Len(events) - 1] = RecordResponseTimeEvent

\* a call that failed in the resolver still recorded its latency
C16_Witness ==
    /\ hasMetrics
    /\ last.op = "generateResponse"
    /\ last.result.error = "INTENT_MATCH_ERROR"
    /\ \E k \in 1..Len(events) : events[k] = RecordResponseTimeEvent

IsIntentMatchRecord(e) == e.fn = "recordIntentMatch"

\* the recordIntentMatch calls of the last call, in order
RecordedLabels == SelectSeq(events, IsIntentMatchRecord)

\* C17 (amended): with a metrics collaborator, a generateResponse call that
\* ends in an answer or in NO_MATCH calls recordIntentMatch exactly once, with
\* the matched label for an answer and with null for NO_MATCH, which is the
\* intent field of the returned result; a call that ends in EMPTY_QUERY,
\* INTENT_MATCH_ERROR or INTERNAL_ERROR does not call recordIntentMatch.
\* Without a metrics collaborator nothing is recorded.
C17_LabelRecordedOnOutcome ==
    last.op \in FacadeOps =>
        /\ (hasMetrics /\ last.result.error \in {"null", "NO_MATCH"}) =>
              RecordedLabels = <<RecordIntentMatchEvent(last.result.intent)>>
        /\ (hasMetrics /\ last.result.error = "null") => last.result.intent.type = "string"
        /\ (hasMetrics /\ last.result.error = "NO_MATCH") => last.result.intent = Null
        /\ last.result.error \in {"EMPTY_QUERY", "INTENT_MATCH_ERROR", "INTERNAL_ERROR"} =>
              RecordedLabels = <<>>
        /\ ~hasMetrics => RecordedLabels = <<>>

\* an answer was returned and its label recorded
C17_Witness ==
    /\ hasMetrics
    /\ last.op = "generateResponse"
    /\ last.result.error = "null"
    /\ last.result.intent.type = "string"
    /\ RecordedLabels = <<RecordIntentMatchEvent(last.result.intent)>>

\* C17 (as claimed): with a metrics collaborator, every generateResponse call
\* calls recordIntentMatch with the intent field of the returned result, the
\* matched label or null.
C17_EveryCallRecordsLabel ==
    (hasMetrics /\ last.op \in FacadeOps) =>
        /\ Len(RecordedLabels) > 0
        /\ \A k \in 1..Len(RecordedLabels) :
              RecordedLabels[k] = RecordIntentMatchEvent(last.result.intent)

\* C18 (as claimed): similarity(a, a) = 1 and similarity(a, '') =
\* similarity('', a) = 0 for every non-empty string a, and similarity('', '') = 1.
C18_SimilarityBoundaryValues ==
    last.op = "_calculateStringSimilarity" =>
        /\ (Len(last.query.str) > 0 /\ last.read.str = last.query.str) => last.result = One
        /\ (Len(last.query.str) > 0 /\ Len(last.read.str) = 0) => last.result = Zero
        /\ (Len(last.query.str) = 0 /\ Len(last.read.str) > 0) => last.result = Zero
        /\ (Len(last.query.str) = 0 /\ Len(last.read.str) = 0) => last.result = One

\* the same letter in the other case
SwapCaseChar(c) ==
    CASE c = "a" -> "A" [] c = "A" -> "a"
      [] c = "b" -> "B" [] c = "B" -> "b"
      [] c = "c" -> "C" [] c = "C" -> "c"
      [] c = "d" -> "D" [] c = "D" -> "d"
      [] c = "u" -> "U" [] c = "U" -> "u"
      [] c = "t" -> "T" [] c = "T" -> "t"
      [] c = "s" -> "S" [] c = "S" -> "s"
      [] c = "x" -> "X" [] c = "X" -> "x"
      [] c = "y" -> "Y" [] c = "Y" -> "y"
      [] OTHER -> c

\* two variants of a string that differ from it only in letter case
SwapCase(s) == [i \in 1..Len(s) |-> SwapCaseChar(s[i])]

SwapCaseOdd(s) == [i \in 1..Len(s) |-> IF i % 2 = 1 THEN SwapCaseChar(s[i]) ELSE s[i]]

SwapCasePattern(pattern) ==
    IF IsString(pattern) THEN Str(SwapCase(pattern.str)) ELSE pattern

SwapCasePatterns(patterns) ==
    IF IsArray(patterns)
    THEN Arr([k \in 1..Len(patterns.items) |-> SwapCasePattern(patterns.items[k])])
    ELSE patterns

SwapCaseEntry(intent) ==
    IF intent.type = "object"
    THEN [intent EXCEPT !.patterns = SwapCasePatterns(intent.patterns)]
    ELSE intent

\* the catalog with the letter case of every pattern changed
SwapCaseCatalog(catalog) ==
    IF IsArray(catalog)
    THEN Arr([k \in 1..Len(catalog.items) |-> SwapCaseEntry(catalog.items[k])])
    ELSE catalog

\* the outcome of the last findMatchingIntent call
LastOutcome == [kind |-> last.kind, intent |-> last.intent, err |-> last.err]

\* C19: resolution is case-insensitive: findMatchingIntent gives the same
\* outcome for a query and for variants of it that differ only in letter case,
\* and the same outcome, up to the patterns' spelling, on the catalog whose
\* patterns differ only in letter case.
C19_CaseInsensitive ==
    (last.op = "findMatchingIntent" /\ IsString(last.query)) =>
        /\ findMatchingIntent(Str(SwapCase(last.query.str)), last.read) = LastOutcome
        /\ findMatchingIntent(Str(SwapCaseOdd(last.query.str)), last.read) = LastOutcome
        /\ \A m \in {findMatchingIntent(last.query, SwapCaseCatalog(last.read))} :
              /\ m.kind = last.kind
              /\ m.err = last.err
              /\ m.intent = SwapCaseEntry(last.intent)

\* an upper-case query was resolved to the intent whose pattern is in lower case
C19_Witness ==
    /\ last.op = "findMatchingIntent"
    /\ last.query = Str(<<"C", "U", "T", "S">>)
    /\ last.kind = "return"
    /\ last.intent.type = "object"
    /\ \E k \in 1..Len(last.intent.patterns.items) :
          last.intent.patterns.items[k] = Str(S_cuts)

\* a valid pattern: string-typed and non-empty
ValidPattern(pattern) == IsString(pattern) /\ Len(pattern.str) > 0

\* an intent without its non-string and empty patterns
ValidPatternsEntry(intent) ==
    IF intent.type = "object" /\ IsArray(intent.patterns)
    THEN [intent EXCEPT !.patterns = Arr(SelectSeq(intent.patterns.items, ValidPattern))]
    ELSE intent

\* the catalog with all non-string and empty patterns removed
ValidPatternsCatalog(catalog) ==
    IF IsArray(catalog)
    THEN Arr([k \in 1..Len(catalog.items) |-> ValidPatternsEntry(catalog.items[k])])
    ELSE catalog

\* the score of one valid pattern against the query
ValidPatternScore(query, pattern) ==
    PatternScore(trim(toLowerCase(query.str)), Words(trim(toLowerCase(query.str))), pattern.str)

\* score is the maximum of the valid patterns' scores, 0 when there is none
IsMaxOverValidPatterns(query, intent, score) ==
    /\ \A k \in 1..Len(intent.patterns.items) :
          ValidPattern(intent.patterns.items[k]) =>
             RLeq(ValidPatternScore(query, intent.patterns.items[k]), score)
    /\ \/ score = Zero
       \/ \E k \in 1..Len(intent.patterns.items) :
             /\ ValidPattern(intent.patterns.items[k])
             /\ ValidPatternScore(query, intent.patterns.items[k]) = score

\* C20: malformed patterns are skipped, not fatal: each intent's score is the
\* maximum pattern score over its non-empty string patterns, the resolver's
\* outcome is the one it has on the catalog with all non-string and empty
\* patterns removed, and a call on a loaded catalog does not fail.
C20_MalformedPatternsSkipped ==
    (last.op = "findMatchingIntent" /\ IsArray(last.read)) =>
        /\ \A m \in {findMatchingIntent(last.query, ValidPatternsCatalog(last.read))} :
              /\ m.kind = last.kind
              /\ m.err = last.err
              /\ m.intent = ValidPatternsEntry(last.intent)
        /\ Resolved => last.kind = "return"
        /\ (Resolved /\ HasWords(last.query)) =>
              \A k \in 1..Len(last.read.items) :
                 IsArray(last.read.items[k].patterns) =>
                    IsMaxOverValidPatterns(last.query, last.read.items[k],
                                           ScoreOf(last.query, last.read.items[k]))

\* an intent was returned for its third pattern, after a number and an empty string
C20_Witness ==
    /\ last.op = "findMatchingIntent"
    /\ last.kind = "return"
    /\ last.intent = IntentB
    /\ ~ValidPattern(last.intent.patterns.items[1])
    /\ ~ValidPattern(last.intent.patterns.items[2])
    /\ last.query = Str(S_abcd)

\* s without its p-th character
DeleteAt(s, p) == [i \in 1..(Len(s) - 1) |-> IF i < p THEN s[i] ELSE s[i + 1]]

\* s with c inserted so that it becomes the p-th character
InsertAt(s, p, c) ==
    [i \in 1..(Len(s) + 1) |-> IF i < p THEN s[i] ELSE IF i = p THEN c ELSE s[i - 1]]

\* the strings one insertion, deletion or substitution away from s, of length at most n
SingleEdits(s, n) ==
    {DeleteAt(s, p) : p \in 1..Len(s)}
    \cup {[s EXCEPT ![p] = c] : p \in 1..Len(s), c \in {"a", "b"}}
    \cup (IF Len(s) < n
          THEN {InsertAt(s, p, c) : p \in 1..(Len(s) + 1), c \in {"a", "b"}}
          ELSE {})

\* the least number of single edits that lead from the strings reached to the
\* target; a shortest edit script never needs a string longer than both ends
RECURSIVE EditSteps(_, _, _, _)
EditSteps(reached, target, n, k) ==
    IF target \in reached
    THEN k
    ELSE EditSteps(reached \cup UNION {SingleEdits(s, n) : s \in reached}, target, n, k + 1)

MinimumEdits(a, b) == EditSteps({a}, b, Max2(Len(a), Len(b)), 0)

\* C21: _calculateLevenshteinDistance(a, b) is the minimum number of
\* single-character insertions, deletions and substitutions that transform a
\* into b; it is 0 exactly when a = b, symmetric, and the other string's length
\* when one argument is empty.
C21_LevenshteinIsMinimumEdits ==
    last.op = "_calculateLevenshteinDistance" =>
        /\ last.result = MinimumEdits(last.query.str, last.read.str)
        /\ last.result = 0 <=> last.query.str = last.read.str
        /\ last.result = _calculateLevenshteinDistance(last.read.str, last.query.str)
        /\ Len(last.query.str) = 0 => last.result = Len(last.read.str)
        /\ Len(last.read.str) = 0 => last.result = Len(last.query.str)

\* two strings of full length that differ in every position
C21_Witness ==
    /\ last.op = "_calculateLevenshteinDistance"
    /\ last.query = Str(<<"a", "b", "a">>)
    /\ last.read = Str(<<"b", "a", "b">>)
    /\ last.result = 2

\* 0 <= r <= 1
InUnitInterval(r) == RLeq(Zero, r) /\ RLeq(r, One)

\* the four components of the score of a string pattern against a query with words
ComponentsOf(query, pattern) ==
    ScoreComponents(trim(toLowerCase(query.str)), Words(trim(toLowerCase(query.str))),
                    toLowerCase(pattern.str), Words(toLowerCase(pattern.str)),
                    WordSimilarityLoop(Words(trim(toLowerCase(query.str))),
                                       Words(toLowerCase(pattern.str)),
                                       [i |-> 1, sum |-> Zero, matchedWords |-> 0]))

\* (1.0 * exact + 0.7 * wordSimilarity + 0.6 * wordOrder + 0.9 * coverage) / 3.2
WeightedSum(c) ==
    RMul(RAdd(RAdd(c.exactMatchScore, RMul(<<7, 10>>, c.wordSimilarityScore)),
              RAdd(RMul(<<6, 10>>, c.wordOrderScore),
                   RMul(<<9, 10>>, c.matchedWordsProportion))),
         <<10, 32>>)

NormalizedComponents(c) ==
    /\ c.exactMatchScore \in {Zero, One}
    /\ InUnitInterval(c.wordSimilarityScore)
    /\ InUnitInterval(c.wordOrderScore)
    /\ InUnitInterval(c.matchedWordsProportion)
    /\ InUnitInterval(WeightedScore(c))
    /\ WeightedScore(c) = WeightedSum(c)

\* C22: every score is normalized: for every query with words and every string
\* pattern the four components lie in [0,1], the word order component after
\* its keyword bonus and cap, the pattern score is their weighted sum divided
\* by 3.2 and lies in [0,1], and so does every intent's score, hence the best one.
C22_ScoresNormalized ==
    (last.op = "findMatchingIntent" /\ HasWords(last.query) /\ IsArray(last.read)) =>
        \A k \in 1..Len(last.read.items) :
           (last.read.items[k].type = "object" /\ IsArray(last.read.items[k].patterns)) =>
              /\ InUnitInterval(ScoreOf(last.query, last.read.items[k]))
              /\ \A j \in 1..Len(last.read.items[k].patterns.items) :
                    IsString(last.read.items[k].patterns.items[j]) =>
                       NormalizedComponents(
                           ComponentsOf(last.query, last.read.items[k].patterns.items[j]))

\* a keyword query against its own pattern: the word order score with its bonus
\* would be 1.2 and is capped
C22_Witness ==
    /\ last.op = "findMatchingIntent"
    /\ last.query = Str(<<"C", "U", "T", "S">>)
    /\ last.intent = IntentC
    /\ ComponentsOf(last.query, Str(S_cuts)).wordOrderScore = One
    /\ ScoreOf(last.query, last.intent) = One

\* C23 (as claimed): exactMatchScore is 1 exactly when the lower-cased, trimmed
\* query equals the lower-cased, trimmed pattern, so a pattern that differs
\* from the query only by case or by leading or trailing whitespace gets 1.
C23_ExactMatchOnNormalizedPattern ==
    (last.op = "findMatchingIntent" /\ HasWords(last.query) /\ IsArray(last.read)) =>
        \A k \in 1..Len(last.read.items) :
           (last.read.items[k].type = "object" /\ IsArray(last.read.items[k].patterns)) =>
              \A j \in 1..Len(last.read.items[k].patterns.items) :
                 IsString(last.read.items[k].patterns.items[j]) =>
                    (ComponentsOf(last.query,
                                  last.read.items[k].patterns.items[j]).exactMatchScore = One
                     <=> trim(toLowerCase(last.query.str))
                            = trim(toLowerCase(last.read.items[k].patterns.items[j].str)))

\* the pattern's lower-cased text is the trimmed, lower-cased query
ExactPattern(query, pattern) ==
    IsString(pattern) /\ toLowerCase(pattern.str) = trim(toLowerCase(query.str))

\* the positions of the intents with a pattern that matches the query exactly
ExactPositions(query, catalog) ==
    { k \in 1..Len(catalog.items) :
        /\ IsArray(catalog.items[k].patterns)
        /\ \E j \in 1..Len(catalog.items[k].patterns.items) :
              ExactPattern(query, catalog.items[k].patterns.items[j]) }

\* C28: an exact pattern match always wins: when the trimmed, lower-cased query
\* is the lower-cased text of some string pattern, the resolver returns the
\* first intent in catalog order with such a pattern, that intent's score is
\* at least 1/4, and every intent without such a pattern scores strictly less
\* than every intent with one.
C28_ExactMatchWins ==
    (Resolved /\ HasWords(last.query) /\ ExactPositions(last.query, last.read) # {}) =>
        \A k \in ExactPositions(last.query, last.read) :
           /\ RLeq(Threshold, ScoreOf(last.query, last.read.items[k]))
           /\ \A j \in 1..Len(last.read.items) :
                 j \notin ExactPositions(last.query, last.read) =>
                    RLess(ScoreOf(last.query, last.read.items[j]),
                          ScoreOf(last.query, last.read.items[k]))
           /\ (\A j \in ExactPositions(last.query, last.read) : k <= j) =>
                 /\ last.kind = "return"
                 /\ last.intent = last.read.items[k]

\* two of three intents have the pattern; the first was returned and the
\* intent without it scored less
C28_Witness ==
    /\ Resolved
    /\ HasWords(last.query)
    /\ Len(last.read.items) = 3
    /\ ExactPositions(last.query, last.read) = {1, 2}
    /\ last.intent = last.read.items[1]
    /\ RLess(ScoreOf(last.query, last.read.items[3]), ScoreOf(last.query, last.read.items[1]))

IsResponseTimeRecord(e) == e.fn = "recordResponseTime"

\* C29 (as claimed): with a metrics collaborator, recordResponseTime is called
\* exactly once per generateResponse call, on every exit path.
C29_LatencyRecordedOnce ==
    (hasMetrics /\ last.op \in FacadeOps) =>
        Len(SelectSeq(events, IsResponseTimeRecord)) = 1

(***************************************************************************)
(* C24                                                                     *)
(***************************************************************************)
\* the number of messages saved since the most recent clear
SavedSinceClear == clock - clearedUpTo

\* the messages the property expects in the history: the last
\* min(n, MAX_HISTORY_LENGTH) of the n messages saved since the last clear
ExpectedHistory(kept) == [i \in 1..kept |-> HistoryMessage(clock - kept + i)]

\* C24: after any sequence of saveMessageToHistory and clearChatHistory
\* calls the persisted history holds at most 50 messages and equals, in
\* order, the last min(n, 50) messages saved since the most recent clear;
\* loadChatHistory returns the empty sequence when nothing is stored and
\* right after a clear, and otherwise what is persisted.
C24_HistoryCappedKeepsLatest ==
    /\ Len(loadChatHistory(storage)) <= 50
    /\ loadChatHistory(storage) = ExpectedHistory(Min2(SavedSinceClear, 50))
    /\ ~storage.present => loadChatHistory(storage) = <<>>
    /\ (last.op = "clearChatHistory" /\ last.kind = "return")
          => loadChatHistory(storage) = <<>>
    /\ last.op = "loadChatHistory"
          => last.result = ExpectedHistory(Min2(SavedSinceClear, 50))

\* more than 50 messages were saved after a clear and the history was loaded
C24_Witness ==
    /\ clearedUpTo > 0
    /\ SavedSinceClear > 50
    /\ last.op = "loadChatHistory"
    /\ Len(last.result) = 50
    /\ last.result[1].timestamp = clock - 49

(***************************************************************************)
(* C25                                                                     *)
(***************************************************************************)
\* the text in the input box is empty or consists of spaces only
BlankInput == \A i \in 1..Len(inputText) : inputText[i] = " "

\* C25: submitting an input that is empty or whitespace-only is a no-op:
\* generateResponse is not called, no message is appended to the displayed
\* messages or to the persisted history, and the loading state is not
\* entered.
C25_BlankSubmitIsNoOp ==
    [][(last'.op = "handleSubmit" /\ BlankInput)
          => /\ UNCHANGED <<messages, storage, pending>>
             /\ ~isLoading'
             /\ \A i \in 1..Len(events') : events'[i].fn # "generateResponse"]_vars

\* a whitespace-only input was submitted in a chat that shows messages
C25_Witness ==
    /\ last.op = "handleSubmit"
    /\ last.query = Str(<<" ">>)
    /\ inputText = <<" ">>
    /\ Len(messages) = 2
    /\ ~isLoading
    /\ pending = {}

(***************************************************************************)
(* C26                                                                     *)
(***************************************************************************)
\* the steps that end a request: it settles, or the page is loaded again
EndsRequest(op) == op \in {"handleSubmit.resolved", "handleSubmit.catch", "mount"}

\* C26: the loading state is true from the moment a non-empty submission
\* starts until its generateResponse request settles, and it is always
\* eventually reset to false, whether the request succeeds or fails; while
\* it is true the input and the submit button are disabled (the text cannot
\* change and nothing is submitted), so at most one request is in flight at
\* any time.
C26_LoadingWhileRequestInFlight ==
    /\ [](/\ isLoading <=> pending # {}
          /\ Cardinality(pending) <= 1)
    /\ [][/\ (last'.op = "handleSubmit" /\ ~BlankInput)
                => (isLoading' /\ Cardinality(pending') = 1)
          /\ isLoading => /\ inputText' = inputText
                          /\ pending' \subseteq pending
                          /\ last'.op \notin {"handleSubmit", "setInputText"}
          /\ (isLoading /\ ~isLoading') => EndsRequest(last'.op)]_vars
    /\ isLoading ~> ~isLoading

\* a request failed and the next one is in flight
C26_Witness ==
    /\ isLoading
    /\ Cardinality(pending) = 1
    /\ Len(messages) = 3
    /\ messages[2].text.fixed = "Failed to process your message. Please try again."
    /\ messages[3].sender = "user"
    /\ errorMessage = "null"

(***************************************************************************)
(* C27                                                                     *)
(***************************************************************************)
\* the step is the rest of handleSubmit after the request has settled
IsSettleStep(op) == op \in {"handleSubmit.resolved", "handleSubmit.catch"}

\* the results the service can return for a query with the catalog [IntentC]
ServiceAnswers(query) ==
    {generateResponse(Str(query), Arr(<<IntentC>>), FALSE, randomIndex).result :
        randomIndex \in RandomIndexes(Str(query), Arr(<<IntentC>>))}

\* the message is the reply to the request: the service's answer, or the
\* failure text when the request failed
IsReplyTo(message, request) ==
    /\ message.sender = "bot"
    /\ message.timestamp = request.timestamp
    /\ IF request.rejected
       THEN /\ message.text.fixed = "Failed to process your message. Please try again."
            /\ message.text.value = Undefined
            /\ message.intent = Null
       ELSE /\ request.response \in ServiceAnswers(request.query)
            /\ message.text.fixed = request.response.answerText
            /\ message.text.value = request.response.answer
            /\ message.intent = request.response.intent

\* C27: each non-empty submission appends the user's message to the
\* displayed messages before any reply (the reply is appended only when the
\* request settles, which is after the submission), and then exactly one bot
\* message is appended for it: the service's answer if the request succeeds,
\* or exactly one 'Failed to process your message. Please try again.'
\* message if it fails.  No other step appends a message, and no message is
\* displayed twice.
C27_UserMessageThenOneReply ==
    /\ [](\A i \in 1..Len(messages), j \in 1..Len(messages) :
             i < j => messages[i].timestamp < messages[j].timestamp)
    /\ [][/\ (last'.op = "handleSubmit" /\ ~BlankInput)
                => /\ Len(messages') = Len(messages) + 1
                   /\ SubSeq(messages', 1, Len(messages)) = messages
                   /\ messages'[Len(messages')].sender = "user"
                   /\ messages'[Len(messages')].text = [fixed |-> "", value |-> Str(trim(inputText))]
                   /\ \E r \in pending' :
                         /\ r.query = trim(inputText)
                         /\ r.timestamp = messages'[Len(messages')].timestamp + 1
          /\ IsSettleStep(last'.op)
                => /\ Len(messages') = Len(messages) + 1
                   /\ SubSeq(messages', 1, Len(messages)) = messages
                   /\ \E r \in pending : IsReplyTo(messages'[Len(messages')], r)
                   /\ pending' = {}
          /\ (~IsSettleStep(last'.op) /\ last'.op # "handleSubmit")
                => (messages' = messages \/ last'.op \in {"mount", "handleClearChat"})]_vars

\* two exchanges are displayed: the first was answered by the service, the
\* second failed
C27_Witness ==
    /\ Len(messages) = 4
    /\ pending = {}
    /\ messages[1].sender = "user"
    /\ messages[2].sender = "bot"
    /\ messages[2].text.value = Str(<<"o", "k">>)
    /\ messages[3].sender = "user"
    /\ messages[4].text.fixed = "Failed to process your message. Please try again."
    /\ last.op = "handleSubmit.catch"

(***************************************************************************)
(* C30                                                                     *)
(***************************************************************************)
\* the message belongs to an exchange submitted before the latest clear that
\* succeeded: clearedUpTo is the last timestamp handed out before that clear
SubmittedBeforeClear(message) == message.timestamp <= clearedUpTo

\* C30: once clearChatHistory has succeeded, neither the displayed messages
\* nor the persisted history ever again contains a message of an exchange
\* that was submitted before the Clear, under every interleaving of the Clear
\* with a request in flight.
C30_ClearNotUndone ==
    /\ \A i \in 1..Len(messages) : ~SubmittedBeforeClear(messages[i])
    /\ \A i \in 1..Len(loadChatHistory(storage)) :
          ~SubmittedBeforeClear(loadChatHistory(storage)[i])

====
